---- MODULE Spec2Model ----
(***************************************************************************)
(* Model of the wallet session of FeedLoop (src/js/config.js,              *)
(* class Web3ManagerStable): connection life cycle, demo fallback,         *)
(* debounced provider events and the reward transaction log.               *)
(*                                                                         *)
(* JavaScript runs the session on one event loop.  Every action below is   *)
(* one run-to-completion slice of a handler: from its entry, or from the   *)
(* resumption after an await, up to the next await or the return.          *)
(***************************************************************************)
EXTENDS Integers, Sequences, FiniteSets, TLC

\* ---------------------------------------------------------------- bounds
MaxCalls == 2   \* connectWallet activations that may be suspended at once
MaxTx == 2      \* sendReward calls made in one behaviour
MaxTime == 2000 \* the time, in ms, the debounce timers are followed for
MaxBurst == 2   \* provider events of one kind in one burst
MaxSubmit == 1  \* feedback submissions made in one behaviour
MaxReports == 3 \* reports an earlier session may have left in the store
MaxRequests == 4 \* eth_requestAccounts requests followed in one behaviour
MaxPageTime == 9000 \* milliseconds followed after app.js is evaluated
MaxModCalls == 2 \* moderateContent calls in flight at once

\* ------------------------------------------------------ program constants
maxConnectionAttempts == 3
HistoryCap == 50
Null == "null"
DemoAccount == "0x742d"
RewardPool == "0x694B"
PendingConnection == "Pending Connection"
UserRejected == 4001
OtherError == -32603
AccountsWait == 500
ChainWait == 1000
DisconnectWait == 500
PerContribution == 1000
DemoBaseline == 12300

\* ------------------------------------------------------------ input sets
Accounts == {"0xA", "0xB"}
Recipients == {"0xC"}
AccountLists == {<<>>, <<"0xA">>, <<"0xB", "0xA">>}
ErrorCodes == {UserRejected, OtherError}
Calls == 1..MaxCalls
ModCalls == 1..MaxModCalls
Kinds == {"accountsChanged", "chainChanged", "disconnect"}
ChainIds == {"0x1f90"}

VARIABLES
    account,                \* this.account (Null or an address)
    isConnected,            \* this.isConnected
    isConnecting,           \* this.isConnecting
    isInitialized,          \* this.isInitialized
    demoMode,               \* this.demoMode
    connectionAttempts,     \* this.connectionAttempts
    eventListenersSetup,    \* this.eventListenersSetup
    initializationTimeout,  \* TRUE while the 5 s timer of init() is armed
    web3,                   \* TRUE once this.web3 holds a Web3 object
    transactionHistory,     \* this.transactionHistory (a JSON value)
    storedHistory,          \* localStorage entry 'transaction_history'
    initPc,                 \* position of init(): settle, getAccounts, done
    metaMask,               \* what isMetaMaskAvailable() returns now
    callPc,                 \* position of each connectWallet activation
    callAttempt,            \* connectionAttempts as left by that activation
    callAccounts,           \* the accounts the provider returned to it
    callStreak,             \* history: failStreak when that activation began
    accountsTimer,          \* debounce slot of accountsChanged
    disconnectTimer,        \* debounce slot of disconnect
    chainTimer,             \* debounce slot of chainChanged
    reloadTimer,            \* the 1 s timer of handleChainChanged
    nonce,                  \* stands for Date.now() + Math.random() in hashes
    failStreak,             \* history: failed live attempts in a row
    exhausted,              \* history: demo mode was entered on exhaustion
    ret,                    \* history: what the last step gave its caller
    clock,                  \* debounce(): ms since the listeners were set
    pending,                \* debounce(): the armed timers of each wrapper
    lastEvent,              \* history: the last event of each kind
    runs,                   \* history: the handler runs since that event
    feedbacks,              \* app.data.feedbacks: the ids, newest first
    storedFeedbacks,        \* localStorage entry 'feedbacks': the ids
    submitPc,               \* position of handleFeedbackSubmit: idle, display
    submitted,              \* the id of the feedback it is submitting
    rewardWait,             \* sendBlockchainReward calls awaiting sendReward
    lastId,                 \* stands for generateId(): the ids given out
    storedReports,          \* localStorage entry 'reports': the ids
    requestsSent,           \* history: eth_requestAccounts requests sent
    readyState,             \* document.readyState
    domPending,             \* DOMContentLoaded is still to be dispatched
    depsReady,              \* what checkDependencies() of app.js returns
    retryTimer,             \* the 100 ms timer of app.js line 1102 is armed
    fallbackTimer,          \* the 3 s timer of app.js line 1106 is armed
    app,                    \* the global app: an index in instances, or 0
    instances,              \* the CampusFeedbackApp objects created
    pageTime,               \* milliseconds since app.js was evaluated
    cache,                  \* ModerationSystem.cache, in insertion order
    modPc,                  \* moderateContent calls: idle, simulating
    modContent,             \* the content each of them was given
    modResult,              \* history: what each of them returned last
    voiceClock,             \* milliseconds since the voice manager was made
    engine,                 \* the SpeechRecognition object: inactive,
                            \* starting, active, stopping
    isListening,            \* VoiceInputManager.isListening
    sessionStart,           \* history: when recognition.start() last ran
    autoStops,              \* the auto-stop timers armed: when each is due
    currentModal,           \* the voice modal is shown
    micPc,                  \* startListening: idle, asking (getUserMedia)
    notifications,          \* NotificationManager.notifications: the ids
    attached,               \* the notifications that have a parentNode
    removals,               \* the 300 ms timers of remove(): id and due time
    autoRemovals,           \* the duration timers of show(): id and due time
    noteClock,              \* milliseconds since the manager was made
    noteCount               \* the notifications created so far

walletVars == <<account, isConnected, isConnecting, isInitialized, demoMode,
          connectionAttempts, eventListenersSetup, initializationTimeout,
          web3, transactionHistory, storedHistory, initPc, metaMask,
          callPc, callAttempt, callAccounts, callStreak, accountsTimer,
          disconnectTimer,
          chainTimer, reloadTimer, nonce, failStreak, exhausted, ret>>
debounceVars == <<clock, pending, lastEvent, runs>>
appVars == <<feedbacks, storedFeedbacks, submitPc, submitted, rewardWait,
             lastId>>
retryVars == <<requestsSent>>
startVars == <<readyState, domPending, depsReady, retryTimer, fallbackTimer,
               app, instances, pageTime>>
modVars == <<cache, modPc, modContent, modResult>>
voiceVars == <<voiceClock, engine, isListening, sessionStart, autoStops,
               currentModal, micPc>>
noteVars == <<notifications, attached, removals, autoRemovals, noteClock,
              noteCount>>
sideVars == <<modVars, voiceVars, noteVars>>
lateVars == <<storedReports, retryVars, startVars, sideVars>>
otherVars == <<debounceVars, appVars, lateVars>>
\* otherVars without the history of the requests.
restVars == <<debounceVars, appVars, storedReports, startVars, sideVars>>
vars == <<walletVars, otherVars>>

sessionVars == <<account, isConnected, isConnecting, isInitialized, demoMode,
                 connectionAttempts, eventListenersSetup,
                 initializationTimeout, web3>>
callVars == <<callPc, callAttempt, callAccounts, callStreak>>
timerVars == <<accountsTimer, disconnectTimer, chainTimer, reloadTimer>>
logVars == <<transactionHistory, storedHistory, nonce>>

Min(a, b) == IF a < b THEN a ELSE b

\* JSON values as UTILS.storage.get (lines 157-173) may return them for the
\* key 'transaction_history': null when the key is absent or unreadable,
\* an array of records (newest first), or any other value, which the
\* "old format" branch of line 168 hands on as it is.  JsonObject stands
\* for the truthy values that are not arrays.
JsonNull == [kind |-> "null", items |-> <<>>]
JsonArray(items) == [kind |-> "array", items |-> items]
JsonObject == [kind |-> "object", items |-> <<>>]
IsArray(v) == v.kind = "array"

\* What the last step was and what it gave its caller.  op is the public
\* method or provider event handler the step entered or completed ("none"
\* for the internal steps), val the value returned as JavaScript prints it
\* ("pending" for the promise of a call that is suspended), hash the hash
\* sendReward returned and <<>> otherwise, note the messages the step handed
\* to showNotification, in order, and balance whether the step ran
\* loadBalance / loadDemoBalance ("loaded"), armed the timer that will
\* ("scheduled"), or did neither ("none"), and shown the balance text it
\* handed to updateBalanceUI, <<>> when it handed none.
Ret(op, val) ==
    [op |-> op, val |-> val, hash |-> <<>>, note |-> <<>>,
     balance |-> "none", shown |-> <<>>]

\* The step called showNotification(msg, ...).
Told(r, msg) == [r EXCEPT !.note = <<msg>>]

\* ------------------------------------------------------ balance derivation
\* Amounts are counted in units of 0.00001 SHM: PerContribution is the
\* 0.01 of lines 1053 and 1064, DemoBaseline the 0.123 of line 1064.
\* getUserContributionCount(), lines 1069-1080: the stored feedbacks and
\* reports (getFeedbacks and getReports give [] for anything but an array).
getUserContributionCount == Len(storedFeedbacks) + Len(storedReports)

\* Number.prototype.toFixed(3): the amount rounded to thousandths, as the
\* text of its whole part and of its three decimals.
ToFixed3(amount) ==
    LET thousandths == (amount + 50) \div 100
    IN <<thousandths \div 1000, thousandths % 1000>>

\* parseFloat of such a text.
ParseFloat(text) == (text[1] * 1000 + text[2]) * 100

\* updateBalanceUI(nativeBalance, shmBalance), lines 1125-1138: the text
\* put in #userPoints, without its unit.
updateBalanceUI(shmBalance) == <<ToFixed3(ParseFloat(shmBalance))>>

\* A demo balance without its baseline.
loadDemoBalanceNoBaseline ==
    updateBalanceUI(ToFixed3(getUserContributionCount * PerContribution))

\* loadDemoBalance(), lines 1062-1067.
loadDemoBalance ==
    updateBalanceUI(ToFixed3(DemoBaseline
                               + getUserContributionCount * PerContribution))

\* loadBalance(), lines 1044-1060, in a session whose account is acct:
\* what it hands to updateBalanceUI, nothing in live mode without an
\* account or a Web3 object (line 1049).
loadBalance(acct) ==
    IF demoMode THEN loadDemoBalance
    ELSE IF acct = Null \/ ~web3 THEN <<>>
    ELSE updateBalanceUI(ToFixed3(getUserContributionCount * PerContribution))

\* The step called loadBalance() with this.account = acct.
Loaded(r, acct) ==
    [r EXCEPT !.balance = "loaded", !.shown = loadBalance(acct)]

\* The step called loadDemoBalance().
LoadedDemo(r) == [r EXCEPT !.balance = "loaded", !.shown = loadDemoBalance]

\* ----------------------------------------------------------- constructor
\* The state the constructor leaves: init() has armed its timer and waits
\* for the page to settle.  localStorage and the provider outlive the page.
FreshSession ==
    /\ account = Null
    /\ isConnected = FALSE
    /\ isConnecting = FALSE
    /\ isInitialized = FALSE
    /\ demoMode = FALSE
    /\ connectionAttempts = 0
    /\ eventListenersSetup = FALSE
    /\ initializationTimeout = TRUE
    /\ web3 = FALSE
    /\ transactionHistory = JsonArray(<<>>)
    /\ initPc = "settle"
    /\ callPc = [c \in Calls |-> "idle"]
    /\ callAttempt = [c \in Calls |-> 0]
    /\ callAccounts = [c \in Calls |-> <<>>]
    /\ callStreak = [c \in Calls |-> 0]
    /\ accountsTimer = <<>>
    /\ disconnectTimer = FALSE
    /\ chainTimer = FALSE
    /\ reloadTimer = FALSE
    /\ failStreak = 0
    /\ exhausted = FALSE

\* A reward recorded by an earlier session of the page (lines 1233-1241).
OldTx ==
    [hash |-> <<"0xsim", 0>>, from |-> RewardPool, to |-> PendingConnection,
     status |-> "simulated", type |-> "reward", demo |-> FALSE]

\* No provider event has been emitted yet (the closures of debounce(),
\* lines 1203-1204, hold no timer).
DebounceIdle ==
    /\ clock = 0
    /\ pending = [k \in Kinds |-> <<>>]
    /\ lastEvent = [k \in Kinds |-> <<>>]
    /\ runs = [k \in Kinds |-> <<>>]

\* The store holds no report (nothing in this program writes the key
\* 'reports': handleReportSubmit, app.js lines 998-1004, is a placeholder).
ReportsIdle == storedReports = <<>>

\* No eth_requestAccounts request has been sent.
RetryIdle == requestsSent = 0

\* The start of the application is over and is not followed: the
\* document is complete and no timer of app.js lines 1096-1111 is armed.
StartIdle ==
    /\ readyState = "complete"
    /\ domPending = FALSE
    /\ depsReady = TRUE
    /\ retryTimer = FALSE
    /\ fallbackTimer = FALSE
    /\ app = 0
    /\ instances = <<>>
    /\ pageTime = 0

\* A content that is no content, and a result that is none: what the
\* variables of a moderateContent call hold while there is no call.
NoContent == [type |-> "none", chars |-> <<>>]
NoVerdict ==
    [approved |-> FALSE, confidence |-> -1, toxicityScore |-> -1,
     issues |-> <<>>, sentiment |-> "none", reason |-> "none",
     error |-> "none"]
NoResult == [content |-> NoContent, verdict |-> NoVerdict]

\* The moderation system as constructed (moderation.js lines 4-9), no
\* call made.
ModIdle ==
    /\ cache = <<>>
    /\ modPc = [c \in ModCalls |-> "idle"]
    /\ modContent = [c \in ModCalls |-> NoContent]
    /\ modResult = [c \in ModCalls |-> NoResult]

\* The voice manager as constructed (voice.js lines 4-12) on a browser
\* with speech recognition: nothing started, no timer armed.
VoiceIdle ==
    /\ voiceClock = 0
    /\ engine = "inactive"
    /\ isListening = FALSE
    /\ sessionStart = 0
    /\ autoStops = <<>>
    /\ currentModal = FALSE
    /\ micPc = "idle"

\* The notification manager as constructed (app.js lines 1120-1124).
NoteIdle ==
    /\ notifications = <<>>
    /\ attached = {}
    /\ removals = <<>>
    /\ autoRemovals = <<>>
    /\ noteClock = 0
    /\ noteCount = 0

SideIdle == ModIdle /\ VoiceIdle /\ NoteIdle

LateIdle == ReportsIdle /\ RetryIdle /\ StartIdle /\ SideIdle

\* The application has no feedback, in memory or stored, and no
\* submission is being handled.
AppIdle ==
    /\ feedbacks = <<>>
    /\ storedFeedbacks = <<>>
    /\ submitPc = "idle"
    /\ submitted = 0
    /\ rewardWait = <<>>
    /\ lastId = 0

Init ==
    /\ FreshSession
    /\ DebounceIdle
    /\ AppIdle
    /\ LateIdle
    /\ storedHistory \in {JsonNull, JsonArray(<<OldTx>>)}
    /\ metaMask \in BOOLEAN
    /\ nonce = 0
    /\ ret = Ret("none", "none")

\* ------------------------------------------------------- guards and picks
\* A connectWallet that lost its guard.
ConnectInProgressNever == FALSE

\* connectWallet, line 877: an attempt is already in flight.
ConnectInProgress == isConnecting

\* The attempt limit compared with > instead of >=.
AttemptsExhaustedLate(n) == n > maxConnectionAttempts

\* connectWallet, lines 886 and 941: no live attempt is left.
AttemptsExhausted(n) == n >= maxConnectionAttempts

\* Event handlers that lost their guards.
EventSuppressedNever == FALSE

\* lines 784, 796, 1162, 1195: provider events are ignored while connecting.
EventSuppressed == isConnecting

\* accounts[0] of a provider answer (lines 830, 910, 1175).
FirstAccount(accounts) == accounts[1]

\* The lowest free activation record; connectWallet may be entered any
\* number of times, MaxCalls bounds how many are suspended together.
IdleCalls == {c \in Calls : callPc[c] = "idle"}
FreeCall == CHOOSE c \in IdleCalls : \A d \in IdleCalls : c <= d
InFlight(c) == callPc[c] \in {"request", "network", "demoWait"}

Bump(n) == Min(n + 1, maxConnectionAttempts)

\* An enableDemoMode that forgets to set the mode flag.
enableDemoModeNoFlag ==
    /\ demoMode' = demoMode
    /\ isInitialized' = TRUE
    /\ isConnecting' = FALSE
    /\ initializationTimeout' = FALSE

\* enableDemoMode(), lines 855-873.
enableDemoMode ==
    /\ demoMode' = TRUE
    /\ isInitialized' = TRUE
    /\ isConnecting' = FALSE
    /\ initializationTimeout' = FALSE

\* The message of the catch block of connectWallet, lines 937-950, for an
\* error with the given code when the counter stands at n.
FailureNote(code, n) ==
    IF code = UserRejected THEN "Connection rejected by user"
    ELSE IF AttemptsExhausted(n)
    THEN "Connection failed, switching to demo mode"
    ELSE "Connection failed, please try again"

\* An activation returns: its record is free again.
Release(c) ==
    /\ callPc' = [callPc EXCEPT ![c] = "idle"]
    /\ callAttempt' = [callAttempt EXCEPT ![c] = 0]
    /\ callAccounts' = [callAccounts EXCEPT ![c] = <<>>]
    /\ callStreak' = [callStreak EXCEPT ![c] = 0]

\* ---------------------------------------------------------- connectWallet
\* A refusal that still counts the call as an attempt.
ConnectRefusedCounting ==
    /\ ret' = Ret("connectWallet", "false")
    /\ connectionAttempts' = Bump(connectionAttempts)
    /\ UNCHANGED <<account, isConnected, isConnecting, isInitialized,
                   demoMode, eventListenersSetup, initializationTimeout,
                   web3, callVars, timerVars, logVars, initPc, metaMask,
                   otherVars,
                   failStreak, exhausted>>

\* connectWallet() turned away by its guard, lines 877-880: return false.
ConnectRefused ==
    /\ ret' = Ret("connectWallet", "false")
    /\ UNCHANGED <<sessionVars, callVars, timerVars, logVars, initPc,
                   metaMask, otherVars, failStreak, exhausted>>

\* connectWallet(), lines 875-903, from its entry to the await of
\* eth_requestAccounts (or to its return when it does not get that far),
\* and connectDemoWallet(), lines 962-977, up to its 1.5 s delay.
ConnectWallet ==
    IF ConnectInProgress
    THEN ConnectRefused
    ELSE IF demoMode
    THEN \* line 883: connectDemoWallet()
         /\ IdleCalls # {}
         /\ isConnecting' = TRUE
         /\ callPc' = [callPc EXCEPT ![FreeCall] = "demoWait"]
         /\ callStreak' = [callStreak EXCEPT ![FreeCall] = failStreak]
         /\ failStreak' = 0
         /\ ret' = Told(Ret("connectWallet", "pending"),
                        "Connecting demo wallet...")
         /\ UNCHANGED <<account, isConnected, isInitialized, demoMode,
                        connectionAttempts, eventListenersSetup,
                        initializationTimeout, web3, callAttempt,
                        callAccounts, timerVars, logVars, initPc, metaMask,
                        otherVars,
                        exhausted>>
    ELSE IF AttemptsExhausted(connectionAttempts)
    THEN \* lines 886-890
         /\ enableDemoMode
         /\ exhausted' = TRUE
         /\ failStreak' = 0
         /\ ret' = Ret("connectWallet", "false")
         /\ UNCHANGED <<account, isConnected, connectionAttempts,
                        eventListenersSetup, web3, callVars, timerVars,
                        logVars, initPc, metaMask, otherVars>>
    ELSE IF ~metaMask
    THEN \* lines 892-900 throw, then catch and finally, lines 934-959
         /\ connectionAttempts' = connectionAttempts + 1
         /\ IF AttemptsExhausted(connectionAttempts + 1)
            THEN enableDemoMode /\ exhausted' = TRUE
            ELSE /\ isConnecting' = FALSE
                 /\ UNCHANGED <<demoMode, isInitialized,
                                initializationTimeout, exhausted>>
         /\ failStreak' = Bump(failStreak)
         /\ ret' = Told(Ret("connectWallet", "false"),
                        FailureNote(OtherError, connectionAttempts + 1))
         /\ UNCHANGED <<account, isConnected, eventListenersSetup, web3,
                        callVars, timerVars, logVars, initPc, metaMask,
                        otherVars>>
    ELSE \* lines 892-907: the request is sent
         /\ IdleCalls # {}
         /\ isConnecting' = TRUE
         /\ connectionAttempts' = connectionAttempts + 1
         /\ callPc' = [callPc EXCEPT ![FreeCall] = "request"]
         /\ callAttempt' = [callAttempt EXCEPT ![FreeCall] =
                                connectionAttempts + 1]
         /\ callStreak' = [callStreak EXCEPT ![FreeCall] = failStreak]
         /\ ret' = Ret("connectWallet", "pending")
         /\ UNCHANGED <<account, isConnected, isInitialized, demoMode,
                        eventListenersSetup, initializationTimeout, web3,
                        callAccounts, timerVars, logVars, initPc, metaMask,
                        otherVars,
                        failStreak, exhausted>>

\* connect() gets as far as its request: the guards of lines 877-898 let
\* it pass.
SendsRequest ==
    /\ ~ConnectInProgress
    /\ ~demoMode
    /\ ~AttemptsExhausted(connectionAttempts)
    /\ metaMask

\* connectWallet() as above, with each eth_requestAccounts request (line
\* 905) counted in requestsSent.
ConnectWalletCounted ==
    IF SendsRequest
    THEN /\ IdleCalls # {}
         /\ requestsSent < MaxRequests
         /\ requestsSent' = requestsSent + 1
         /\ isConnecting' = TRUE
         /\ connectionAttempts' = connectionAttempts + 1
         /\ callPc' = [callPc EXCEPT ![FreeCall] = "request"]
         /\ callAttempt' = [callAttempt EXCEPT ![FreeCall] =
                                connectionAttempts + 1]
         /\ callStreak' = [callStreak EXCEPT ![FreeCall] = failStreak]
         /\ ret' = Ret("connectWallet", "pending")
         /\ UNCHANGED <<account, isConnected, isInitialized, demoMode,
                        eventListenersSetup, initializationTimeout, web3,
                        callAccounts, timerVars, logVars, initPc, metaMask,
                        restVars, failStreak, exhausted>>
    ELSE ConnectWallet

\* A catch block that also drops the connection.
ConnectFailedClearing(c, code) ==
    /\ IF code = UserRejected
       THEN /\ isConnecting' = FALSE
            /\ UNCHANGED <<demoMode, isInitialized, initializationTimeout,
                           exhausted>>
       ELSE IF AttemptsExhausted(connectionAttempts)
       THEN enableDemoMode /\ exhausted' = TRUE
       ELSE /\ isConnecting' = FALSE
            /\ UNCHANGED <<demoMode, isInitialized, initializationTimeout,
                           exhausted>>
    /\ account' = Null
    /\ isConnected' = FALSE
    /\ Release(c)
    /\ failStreak' = Bump(failStreak)
    /\ ret' = Told(Ret("connectWallet", "false"),
                   FailureNote(code, connectionAttempts))
    /\ UNCHANGED <<connectionAttempts, eventListenersSetup, web3, timerVars,
                   logVars, initPc, metaMask, otherVars>>

\* The catch and finally blocks of connectWallet, lines 934-959, for an
\* error with the given code thrown after the request was sent.
ConnectFailed(c, code) ==
    /\ IF code = UserRejected
       THEN /\ isConnecting' = FALSE
            /\ UNCHANGED <<demoMode, isInitialized, initializationTimeout,
                           exhausted>>
       ELSE IF AttemptsExhausted(connectionAttempts)
       THEN enableDemoMode /\ exhausted' = TRUE
       ELSE /\ isConnecting' = FALSE
            /\ UNCHANGED <<demoMode, isInitialized, initializationTimeout,
                           exhausted>>
    /\ Release(c)
    /\ failStreak' = Bump(failStreak)
    /\ ret' = Told(Ret("connectWallet", "false"),
                   FailureNote(code, connectionAttempts))
    /\ UNCHANGED <<account, isConnected, connectionAttempts,
                   eventListenersSetup, web3, timerVars, logVars, initPc,
                   metaMask, otherVars>>

\* The provider rejects eth_requestAccounts (line 905 throws).
RequestRejected(c, code) ==
    /\ callPc[c] = "request"
    /\ ConnectFailed(c, code)

\* The provider answers eth_requestAccounts, lines 909-917 and 930-932.
\* ensureCorrectNetwork() (lines 1007-1020) returns at once in demo mode
\* and otherwise awaits the provider again.
RequestResolved(c, accounts) ==
    /\ callPc[c] = "request"
    /\ IF Len(accounts) > 0
       THEN /\ account' = FirstAccount(accounts)
            /\ isConnected' = TRUE
            /\ connectionAttempts' = 0
            /\ failStreak' = 0
            /\ IF demoMode
               THEN /\ isConnecting' = FALSE
                    /\ Release(c)
                    /\ ret' = Loaded(Told(Ret("connectWallet", "true"),
                                          "Wallet connected successfully!"),
                                     FirstAccount(accounts))
               ELSE /\ callPc' = [callPc EXCEPT ![c] = "network"]
                    /\ callAccounts' = [callAccounts EXCEPT ![c] = accounts]
                    /\ ret' = Ret("none", "none")
                    /\ UNCHANGED <<isConnecting, callAttempt, callStreak>>
            /\ UNCHANGED <<isInitialized, demoMode, eventListenersSetup,
                           initializationTimeout, web3, timerVars, logVars,
                           initPc, metaMask, otherVars, exhausted>>
       ELSE ConnectFailed(c, OtherError)

\* ensureCorrectNetwork() is over (its errors are swallowed, lines
\* 1017-1019 and 1029-1041); lines 919-929 and the finally block.
NetworkChecked(c) ==
    /\ callPc[c] = "network"
    /\ isConnecting' = FALSE
    /\ Release(c)
    /\ ret' = Loaded(Told(Ret("connectWallet", "true"),
                          "Wallet connected successfully!"), account)
    /\ UNCHANGED <<account, isConnected, isInitialized, demoMode,
                   connectionAttempts, eventListenersSetup,
                   initializationTimeout, web3, timerVars, logVars, initPc,
                   metaMask, otherVars, failStreak, exhausted>>

\* connectDemoWallet() after its delay, lines 979-993.
DemoConnected(c) ==
    /\ callPc[c] = "demoWait"
    /\ account' = DemoAccount
    /\ isConnected' = TRUE
    /\ isConnecting' = FALSE
    /\ Release(c)
    /\ ret' = LoadedDemo(Told(Ret("connectWallet", "true"),
                              "Demo wallet connected!"))
    /\ UNCHANGED <<isInitialized, demoMode, connectionAttempts,
                   eventListenersSetup, initializationTimeout, web3,
                   timerVars, logVars, initPc, metaMask, otherVars, failStreak,
                   exhausted>>

\* ------------------------------------------------------- disconnectWallet
\* A disconnectWallet that clears the flag and keeps the account.
DisconnectedKeepingAccount ==
    /\ isConnected' = FALSE
    /\ connectionAttempts' = 0
    /\ failStreak' = 0
    /\ UNCHANGED account

\* The body of disconnectWallet() after its guard, lines 1146-1157.
Disconnected ==
    /\ account' = Null
    /\ isConnected' = FALSE
    /\ connectionAttempts' = 0
    /\ failStreak' = 0

\* A notification that calls every wallet a live one.
DisconnectNoteLive == "Wallet disconnected"

\* The message of disconnectWallet(), lines 1154-1157.
DisconnectNote ==
    IF demoMode THEN "Demo wallet disconnected" ELSE "Wallet disconnected"

\* A disconnectWallet that lost its guard.
DisconnectBlockedNever == FALSE

\* disconnectWallet(), line 1141: a connect attempt is in flight.
DisconnectBlocked == isConnecting

\* disconnectWallet() called by the user (wallet menu, line 1358).  The
\* method is async and has no return value: the promise it hands back
\* resolves to undefined after the early return of line 1143 as well as
\* at its end.
DisconnectWallet ==
    /\ IF DisconnectBlocked
       THEN /\ ret' = Ret("disconnectWallet", "undefined")
            /\ UNCHANGED <<account, isConnected, connectionAttempts,
                           failStreak>>
       ELSE /\ Disconnected
            /\ ret' = Told(Ret("disconnectWallet", "undefined"),
                           DisconnectNote)
    /\ UNCHANGED <<isConnecting, isInitialized, demoMode,
                   eventListenersSetup, initializationTimeout, web3,
                   callVars, timerVars, logVars, initPc, metaMask,
                   otherVars, exhausted>>

\* ------------------------------------------------------------------ init
\* loadTransactionHistory(), line 1312: get(...) || [].
StoredOrEmpty(v) == IF v = JsonNull THEN JsonArray(<<>>) ELSE v

\* The tail of init(), lines 733-743: loadTransactionHistory() (lines
\* 1309-1319) replaces the in-memory log by the stored one.
InitFinished ==
    /\ isInitialized' = TRUE
    /\ initializationTimeout' = FALSE
    /\ transactionHistory' = StoredOrEmpty(storedHistory)
    /\ initPc' = "done"

\* An init() that does not fall back when it finds no provider.
InitSettledNoFallback(libOk) ==
    /\ initPc = "settle"
    /\ IF ~metaMask
       THEN /\ InitFinished
            /\ UNCHANGED <<demoMode, isConnecting, web3,
                           eventListenersSetup>>
       ELSE IF ~libOk
       THEN \* line 726, then the catch of initializeMetaMask, line 772
            /\ enableDemoMode
            /\ InitFinished
            /\ UNCHANGED <<web3, eventListenersSetup>>
       ELSE IF isConnecting
       THEN \* line 726, then line 822 returns
            /\ demoMode' = FALSE
            /\ web3' = TRUE
            /\ eventListenersSetup' = TRUE
            /\ InitFinished
            /\ UNCHANGED isConnecting
       ELSE \* line 726, then line 827 awaits
            /\ demoMode' = FALSE
            /\ web3' = TRUE
            /\ eventListenersSetup' = TRUE
            /\ initPc' = "getAccounts"
            /\ UNCHANGED <<isConnecting, isInitialized,
                           initializationTimeout, transactionHistory>>
    /\ ret' = Ret("none", "none")
    /\ UNCHANGED <<account, isConnected, connectionAttempts, callVars,
                   timerVars, storedHistory, nonce, metaMask,
                   otherVars, failStreak,
                   exhausted>>

\* init() resumes after the 500 ms settle delay, lines 723-731, and runs
\* initializeMetaMask() (lines 757-774) and checkExistingConnection()
\* (lines 821-827) up to the await of getAccounts.  libOk is whether
\* new Web3(...) succeeds.
InitSettled(libOk) ==
    /\ initPc = "settle"
    /\ IF ~metaMask
       THEN \* line 730
            /\ enableDemoMode
            /\ InitFinished
            /\ UNCHANGED <<web3, eventListenersSetup>>
       ELSE IF ~libOk
       THEN \* line 726, then the catch of initializeMetaMask, line 772
            /\ enableDemoMode
            /\ InitFinished
            /\ UNCHANGED <<web3, eventListenersSetup>>
       ELSE IF isConnecting
       THEN \* line 726, then line 822 returns
            /\ demoMode' = FALSE
            /\ web3' = TRUE
            /\ eventListenersSetup' = TRUE
            /\ InitFinished
            /\ UNCHANGED isConnecting
       ELSE \* line 726, then line 827 awaits
            /\ demoMode' = FALSE
            /\ web3' = TRUE
            /\ eventListenersSetup' = TRUE
            /\ initPc' = "getAccounts"
            /\ UNCHANGED <<isConnecting, isInitialized,
                           initializationTimeout, transactionHistory>>
    /\ ret' = Ret("none", "none")
    /\ UNCHANGED <<account, isConnected, connectionAttempts, callVars,
                   timerVars, storedHistory, nonce, metaMask,
                   otherVars, failStreak,
                   exhausted>>

\* web3.eth.getAccounts() answers (ok) or throws (lines 850-852);
\* checkExistingConnection(), lines 829-849, then the tail of init().
InitAccounts(ok, accounts) ==
    /\ initPc = "getAccounts"
    /\ IF ok /\ Len(accounts) > 0
       THEN IF account # FirstAccount(accounts)
            THEN /\ account' = FirstAccount(accounts)
                 /\ isConnected' = TRUE
            ELSE UNCHANGED <<account, isConnected>>
       ELSE IF ok /\ isConnected
       THEN /\ account' = Null
            /\ isConnected' = FALSE
       ELSE UNCHANGED <<account, isConnected>>
    /\ InitFinished
    /\ ret' = IF ok /\ Len(accounts) > 0 /\ account # FirstAccount(accounts)
              THEN Loaded(Ret("none", "none"), FirstAccount(accounts))
              ELSE Ret("none", "none")
    /\ UNCHANGED <<isConnecting, demoMode, connectionAttempts,
                   eventListenersSetup, web3, callVars, timerVars,
                   storedHistory, nonce, metaMask,
                   otherVars, failStreak, exhausted>>

\* An initialization timer that is disarmed without falling back.
InitTimeoutIdle ==
    /\ initializationTimeout
    /\ initPc # "settle"
    /\ initializationTimeout' = FALSE
    /\ ret' = Ret("none", "none")
    /\ UNCHANGED <<account, isConnected, isConnecting, isInitialized,
                   demoMode, connectionAttempts, eventListenersSetup, web3,
                   callVars, timerVars, logVars, initPc, metaMask,
                   otherVars, failStreak, exhausted>>

\* The 5 s timer of init() fires, lines 712-717.  The settle delay of
\* 500 ms is over by then.
InitTimeout ==
    /\ initializationTimeout
    /\ initPc # "settle"
    /\ IF ~isInitialized
       THEN enableDemoMode
       ELSE /\ initializationTimeout' = FALSE
            /\ UNCHANGED <<demoMode, isInitialized, isConnecting>>
    /\ ret' = Ret("none", "none")
    /\ UNCHANGED <<account, isConnected, connectionAttempts,
                   eventListenersSetup, web3, callVars, timerVars, logVars,
                   initPc, metaMask, otherVars, failStreak, exhausted>>

\* -------------------------------------------------------- provider events
\* The provider emits accountsChanged; debounce(), lines 1202-1212,
\* restarts the 500 ms timer and keeps the last payload only.
AccountsChangedEmitted(accounts) ==
    /\ eventListenersSetup
    /\ accountsTimer' = <<accounts>>
    /\ ret' = Ret("none", "none")
    /\ UNCHANGED <<sessionVars, callVars, disconnectTimer, chainTimer,
                   reloadTimer, logVars, initPc, metaMask,
                   otherVars, failStreak,
                   exhausted>>

DisconnectEmitted ==
    /\ eventListenersSetup
    /\ disconnectTimer' = TRUE
    /\ ret' = Ret("none", "none")
    /\ UNCHANGED <<sessionVars, callVars, accountsTimer, chainTimer,
                   reloadTimer, logVars, initPc, metaMask,
                   otherVars, failStreak,
                   exhausted>>

ChainChangedEmitted ==
    /\ eventListenersSetup
    /\ chainTimer' = TRUE
    /\ ret' = Ret("none", "none")
    /\ UNCHANGED <<sessionVars, callVars, accountsTimer, disconnectTimer,
                   reloadTimer, logVars, initPc, metaMask,
                   otherVars, failStreak,
                   exhausted>>

\* A handleAccountsChanged that does not compare the address with the
\* present one.
handleAccountsChangedAlways(accounts) ==
    IF Len(accounts) = 0
    THEN IF isConnected
         THEN /\ Disconnected
              /\ ret' = Told(Ret("accountsChanged", "none"), DisconnectNote)
         ELSE /\ ret' = Ret("accountsChanged", "none")
              /\ UNCHANGED <<account, isConnected, connectionAttempts,
                             failStreak>>
    ELSE /\ account' = FirstAccount(accounts)
         /\ isConnected' = TRUE
         /\ ret' = Loaded(Ret("accountsChanged", "none"),
                          FirstAccount(accounts))
         /\ UNCHANGED <<connectionAttempts, failStreak>>

\* handleAccountsChanged(accounts) after its guard, lines 1167-1183.
handleAccountsChanged(accounts) ==
    IF Len(accounts) = 0
    THEN IF isConnected
         THEN /\ Disconnected
              /\ ret' = Told(Ret("accountsChanged", "none"), DisconnectNote)
         ELSE /\ ret' = Ret("accountsChanged", "none")
              /\ UNCHANGED <<account, isConnected, connectionAttempts,
                             failStreak>>
    ELSE IF account # FirstAccount(accounts)
    THEN /\ account' = FirstAccount(accounts)
         /\ isConnected' = TRUE
         /\ ret' = Loaded(Ret("accountsChanged", "none"),
                          FirstAccount(accounts))
         /\ UNCHANGED <<connectionAttempts, failStreak>>
    ELSE /\ ret' = Ret("accountsChanged", "none")
         /\ UNCHANGED <<account, isConnected, connectionAttempts,
                        failStreak>>

\* The debounced accountsChanged handler runs, lines 783-788 and 1161-1165.
AccountsChangedFired ==
    /\ accountsTimer # <<>>
    /\ accountsTimer' = <<>>
    /\ IF EventSuppressed
       THEN /\ ret' = Ret("accountsChanged", "none")
            /\ UNCHANGED <<account, isConnected, connectionAttempts,
                           failStreak>>
       ELSE handleAccountsChanged(accountsTimer[1])
    /\ UNCHANGED <<isConnecting, isInitialized, demoMode,
                   eventListenersSetup, initializationTimeout, web3,
                   callVars, disconnectTimer, chainTimer, reloadTimer,
                   logVars, initPc, metaMask, otherVars, exhausted>>

\* The debounced disconnect handler runs, lines 795-800 and 1194-1199.
DisconnectFired ==
    /\ disconnectTimer
    /\ disconnectTimer' = FALSE
    /\ IF EventSuppressed
       THEN /\ ret' = Ret("disconnect", "none")
            /\ UNCHANGED <<account, isConnected, connectionAttempts,
                           failStreak>>
       ELSE /\ Disconnected
            /\ ret' = Told(Ret("disconnect", "none"), DisconnectNote)
    /\ UNCHANGED <<isConnecting, isInitialized, demoMode,
                   eventListenersSetup, initializationTimeout, web3,
                   callVars, accountsTimer, chainTimer, reloadTimer,
                   logVars, initPc, metaMask, otherVars, exhausted>>

\* The debounced chainChanged handler runs, lines 790-793 and 1186-1192:
\* it schedules the page reload.
ChainChangedFired ==
    /\ chainTimer
    /\ chainTimer' = FALSE
    /\ reloadTimer' = TRUE
    /\ ret' = Ret("chainChanged", "none")
    /\ UNCHANGED <<sessionVars, callVars, accountsTimer, disconnectTimer,
                   logVars, initPc, metaMask,
                   otherVars, failStreak, exhausted>>

\* window.location.reload(), line 1190: the page and all its pending
\* callbacks are gone, the script runs again (lines 1402-1421) and the
\* constructor builds a new session.  localStorage is kept.
Reload ==
    /\ reloadTimer
    /\ account' = Null
    /\ isConnected' = FALSE
    /\ isConnecting' = FALSE
    /\ isInitialized' = FALSE
    /\ demoMode' = FALSE
    /\ connectionAttempts' = 0
    /\ eventListenersSetup' = FALSE
    /\ initializationTimeout' = TRUE
    /\ web3' = FALSE
    /\ transactionHistory' = JsonArray(<<>>)
    /\ initPc' = "settle"
    /\ callPc' = [c \in Calls |-> "idle"]
    /\ callAttempt' = [c \in Calls |-> 0]
    /\ callAccounts' = [c \in Calls |-> <<>>]
    /\ callStreak' = [c \in Calls |-> 0]
    /\ accountsTimer' = <<>>
    /\ disconnectTimer' = FALSE
    /\ chainTimer' = FALSE
    /\ reloadTimer' = FALSE
    /\ failStreak' = 0
    /\ exhausted' = FALSE
    /\ ret' = Ret("none", "none")
    /\ UNCHANGED <<storedHistory, nonce, metaMask, otherVars>>

\* The wallet extension injects window.ethereum after the page script has
\* started: isMetaMaskAvailable(), lines 751-755, answers true from now on.
ProviderInjected ==
    /\ ~metaMask
    /\ metaMask' = TRUE
    /\ ret' = Ret("none", "none")
    /\ UNCHANGED <<sessionVars, callVars, timerVars, logVars, initPc,
                   failStreak, exhausted, otherVars>>

\* ------------------------------------------------------------ sendReward
\* The record built by simulateReward / sendDemoReward / trackReward,
\* lines 1233-1241, 1253-1262 and 1275-1283.
RewardTx(prefix, to, status, demo) ==
    [hash |-> <<prefix, nonce + 1>>, from |-> RewardPool, to |-> to,
     status |-> status, type |-> "reward", demo |-> demo]

\* A recordTransaction that evicts the newest of the old records.
RecordedDropNewest(history, tx) ==
    IF Len(history) < HistoryCap THEN <<tx>> \o history
    ELSE <<tx>> \o Tail(history)

\* recordTransaction(), lines 1295-1307: newest first, at most 50 kept.
Recorded(history, tx) == SubSeq(<<tx>> \o history, 1,
                                Min(Len(history) + 1, HistoryCap))

\* The notification of simulateReward / sendDemoReward / trackReward,
\* lines 1245-1247, 1266-1268 and 1287-1289.
RewardNote(tx) ==
    IF tx.status = "simulated"
    THEN "You earned 0.01 SHM! Connect wallet to track rewards."
    ELSE IF tx.demo THEN "Demo reward earned! +0.01 SHM tokens!"
    ELSE "Reward earned! +0.01 SHM added to your balance!"

\* A sendReward that looks at the mode only.
NewTxByMode(recipient) ==
    IF demoMode
    THEN RewardTx("0xdemo", recipient, "confirmed", TRUE)
    ELSE RewardTx("0xtrack", recipient, "tracked", FALSE)

\* The record sendReward builds in the present state, lines 1221-1229.
NewTx(recipient) ==
    IF ~isConnected
    THEN RewardTx("0xsim", PendingConnection, "simulated", FALSE)
    ELSE IF demoMode
    THEN RewardTx("0xdemo", recipient, "confirmed", TRUE)
    ELSE RewardTx("0xtrack", recipient, "tracked", FALSE)

\* What sendReward gives its caller when it has recorded tx: the hash, the
\* notification, and for a connected wallet the 1 s timer of the balance
\* refresh (lines 1270 and 1291).
RewardResult(tx) ==
    [Told(Ret("sendReward", "hash"), RewardNote(tx))
        EXCEPT !.hash = tx.hash,
               !.balance = IF tx.status = "simulated" THEN "none"
                           ELSE "scheduled"]

\* A sendReward that keeps a record only when the store took it.
RewardedIfSaved(recipient, saved) ==
    /\ nonce < MaxTx
    /\ nonce' = nonce + 1
    /\ IF IsArray(transactionHistory) /\ saved
       THEN LET log == JsonArray(Recorded(transactionHistory.items,
                                          NewTx(recipient)))
            IN /\ transactionHistory' = log
               /\ storedHistory' = log
       ELSE UNCHANGED <<transactionHistory, storedHistory>>

\* What sendReward does to the log, lines 1220-1230 with
\* recordTransaction(), lines 1295-1307.  unshift exists on arrays only:
\* on any other value line 1296 throws a TypeError.  saved is whether
\* UTILS.storage.set (lines 175-188) could write.
Rewarded(recipient, saved) ==
    /\ nonce < MaxTx
    /\ nonce' = nonce + 1
    /\ IF IsArray(transactionHistory)
       THEN LET log == JsonArray(Recorded(transactionHistory.items,
                                          NewTx(recipient)))
            IN /\ transactionHistory' = log
               /\ storedHistory' = IF saved THEN log ELSE storedHistory
       ELSE UNCHANGED <<transactionHistory, storedHistory>>

\* What that call gives its caller: the TypeError leaves sendReward as a
\* rejected promise.
RewardReturn(recipient) ==
    IF IsArray(transactionHistory)
    THEN RewardResult(NewTx(recipient))
    ELSE Ret("sendReward", "throws")

\* sendReward(recipientAddress, amount) called on the session.
SendReward(recipient, saved) ==
    /\ Rewarded(recipient, saved)
    /\ ret' = RewardReturn(recipient)
    /\ UNCHANGED <<sessionVars, callVars, timerVars, initPc, metaMask,
                   failStreak, exhausted, otherVars>>

\* ------------------------------------------------------------ debounce()
Wait(k) ==
    IF k = "accountsChanged" THEN AccountsWait
    ELSE IF k = "chainChanged" THEN ChainWait
    ELSE DisconnectWait

\* The arguments the provider passes with an event of kind k.
Payloads(k) ==
    IF k = "accountsChanged" THEN AccountLists
    ELSE IF k = "chainChanged" THEN {<<id>> : id \in ChainIds}
    ELSE {<<>>}

\* A wrapper that arms its timer without clearing the one before.
executedFunctionNoClear(timers, now, wait, args) ==
    Append(timers, [due |-> now + wait, args |-> args])

\* executedFunction(...args), lines 1204-1211: clearTimeout(timeout),
\* then timeout = setTimeout(later, wait).  The result is the timers of
\* the wrapper that are armed afterwards.
executedFunction(timers, now, wait, args) ==
    <<[due |-> now + wait, args |-> args]>>

\* The place of an event in its burst: it continues the burst when the
\* run for the event before it is still pending.
NthOfBurst(k) ==
    IF pending[k] # <<>> /\ lastEvent[k] # <<>>
    THEN lastEvent[k][1].nth + 1
    ELSE 1

\* The provider emits an event of kind k with arguments args: the
\* listener installed at lines 811-813 is the debounced wrapper.
EventEmitted(k, args) ==
    /\ NthOfBurst(k) <= MaxBurst
    /\ pending' = [pending EXCEPT
                     ![k] = executedFunction(@, clock, Wait(k), args)]
    /\ lastEvent' = [lastEvent EXCEPT
                       ![k] = <<[at |-> clock, args |-> args,
                                 nth |-> NthOfBurst(k)]>>]
    /\ runs' = [runs EXCEPT ![k] = <<>>]
    /\ UNCHANGED <<clock, walletVars, appVars, lateVars>>

\* The timers left when timer i has fired and later() has cleared the
\* timer armed last (line 1206).
Cleared(timers, i) ==
    LET rest == SubSeq(timers, 1, Len(timers) - 1)
    IN IF i = Len(timers) THEN rest
       ELSE SubSeq(rest, 1, i - 1) \o SubSeq(rest, i + 1, Len(rest))

\* later(), lines 1205-1208: timer i of the wrapper of kind k fires and
\* calls the handler with the arguments of the call that armed it.
Later(k, i) ==
    /\ i \in DOMAIN pending[k]
    /\ pending[k][i].due = clock
    /\ runs' = [runs EXCEPT
                  ![k] = Append(@, [at |-> clock,
                                    args |-> pending[k][i].args])]
    /\ pending' = [pending EXCEPT ![k] = Cleared(@, i)]
    /\ UNCHANGED <<clock, lastEvent, walletVars, appVars, lateVars>>

\* Time passes, in steps of a quarter of a second; a timer fires when it
\* is due.
Advance ==
    /\ clock + 250 <= MaxTime
    /\ \A k \in Kinds : \A i \in DOMAIN pending[k] :
          pending[k][i].due >= clock + 250
    /\ clock' = clock + 250
    /\ UNCHANGED <<pending, lastEvent, runs, walletVars, appVars,
                   lateVars>>

\* --------------------------------------------------- feedback submission
\* Everything of the wallet but the record of the last step.
walletState == <<sessionVars, callVars, timerVars, initPc, metaMask,
                 failStreak, exhausted>>

\* UTILS.storage.saveFeedback, lines 220-241: an id already stored is
\* updated in place, a new one is put in front.
SavedIn(list, id) ==
    IF \E i \in DOMAIN list : list[i] = id THEN list ELSE <<id>> \o list

\* handleFeedbackSubmit(e), app.js lines 700-746, from the submit event
\* to the await of loadStats(): validateFeedbackData (lines 789-804) and,
\* for a valid form, saveFeedback (lines 806-817).  The submit button is
\* disabled while a submission is handled (lines 843-853).
SubmitFeedback(valid) ==
    /\ submitPc = "idle"
    /\ IF valid
       THEN /\ lastId < MaxSubmit
            /\ lastId' = lastId + 1
            /\ feedbacks' = <<lastId + 1>> \o feedbacks
            /\ storedFeedbacks' = SavedIn(storedFeedbacks, lastId + 1)
            /\ submitPc' = "display"
            /\ submitted' = lastId + 1
            /\ ret' = Ret("handleFeedbackSubmit", "pending")
            /\ UNCHANGED rewardWait
       ELSE /\ ret' = Told(Ret("handleFeedbackSubmit", "undefined"),
                           "Please fix the form errors")
            /\ UNCHANGED appVars
    /\ UNCHANGED <<walletState, logVars, debounceVars, lateVars>>

\* handleFeedbackSubmit after loadStats() and loadRecentActivity(), app.js
\* lines 747-772, with sendBlockchainReward (lines 819-841) up to its
\* await: it calls sendReward only for a connected wallet, and catches
\* what sendReward throws.
SubmitDisplayed(saved) ==
    /\ submitPc = "display"
    /\ submitPc' = "idle"
    /\ submitted' = 0
    /\ IF isConnected
       THEN /\ Rewarded(account, saved)
            /\ rewardWait' =
                 IF IsArray(transactionHistory)
                 THEN Append(rewardWait, submitted)
                 ELSE rewardWait
            /\ ret' = [RewardReturn(account) EXCEPT
                         !.op = "handleFeedbackSubmit",
                         !.val = "undefined",
                         !.note = <<"Feedback submitted successfully!">>
                                     \o @]
       ELSE /\ ret' = [Ret("handleFeedbackSubmit", "undefined") EXCEPT
                         !.note = <<"Feedback submitted successfully!",
                                    "Connect your wallet to earn rewards!">>]
            /\ UNCHANGED <<logVars, rewardWait>>
    /\ UNCHANGED <<walletState, debounceVars, lateVars, feedbacks,
                   storedFeedbacks, lastId>>

\* sendBlockchainReward after its await, app.js lines 825-833: the hash
\* is stored in the submission, which is saved again.
RewardSaved ==
    /\ rewardWait # <<>>
    /\ rewardWait' = Tail(rewardWait)
    /\ feedbacks' = <<Head(rewardWait)>> \o feedbacks
    /\ storedFeedbacks' = SavedIn(storedFeedbacks, Head(rewardWait))
    /\ ret' = Told(Ret("sendBlockchainReward", "undefined"),
                   "Reward sent! You earned 0.01 SHM tokens!")
    /\ UNCHANGED <<walletState, logVars, debounceVars, lateVars, submitPc,
                   submitted, lastId>>

\* ------------------------------------------------------------ the system
Next ==
    \/ ConnectWallet
    \/ \E c \in Calls, code \in ErrorCodes : RequestRejected(c, code)
    \/ \E c \in Calls, accounts \in AccountLists : RequestResolved(c, accounts)
    \/ \E c \in Calls : NetworkChecked(c)
    \/ \E c \in Calls : DemoConnected(c)
    \/ DisconnectWallet
    \/ \E libOk \in BOOLEAN : InitSettled(libOk)
    \/ \E ok \in BOOLEAN, accounts \in AccountLists : InitAccounts(ok, accounts)
    \/ InitTimeout
    \/ \E accounts \in AccountLists : AccountsChangedEmitted(accounts)
    \/ DisconnectEmitted
    \/ ChainChangedEmitted
    \/ AccountsChangedFired
    \/ DisconnectFired
    \/ ChainChangedFired
    \/ Reload
    \/ ProviderInjected

\* The wallet session: connection life cycle and provider events.
Spec == Init /\ [][Next]_vars

\* The session and the reward log with a provider that emits no events:
\* connect and disconnect calls, initialization, and the reward calls of
\* the application.
NextLog ==
    \/ ConnectWallet
    \/ \E c \in Calls, code \in ErrorCodes : RequestRejected(c, code)
    \/ \E c \in Calls, accounts \in AccountLists : RequestResolved(c, accounts)
    \/ \E c \in Calls : NetworkChecked(c)
    \/ \E c \in Calls : DemoConnected(c)
    \/ DisconnectWallet
    \/ \E libOk \in BOOLEAN : InitSettled(libOk)
    \/ \E ok \in BOOLEAN, accounts \in AccountLists : InitAccounts(ok, accounts)
    \/ InitTimeout
    \/ \E recipient \in Recipients, saved \in BOOLEAN :
            SendReward(recipient, saved)

SpecLog == Init /\ [][NextLog]_vars

\* The same started on a store that may hold any JSON value.
InitStore ==
    /\ FreshSession
    /\ DebounceIdle
    /\ AppIdle
    /\ LateIdle
    /\ storedHistory \in {JsonNull, JsonArray(<<OldTx>>), JsonObject}
    /\ metaMask \in BOOLEAN
    /\ nonce = 0
    /\ ret = Ret("none", "none")

SpecStore == InitStore /\ [][NextLog]_vars

\* The log an earlier session leaves after n rewards earned while
\* disconnected, newest first: the newest is OldTx.
FullLog(n) == [i \in 1..n |-> [OldTx EXCEPT !.hash = <<"0xsim", 1 - i>>]]

\* The same started on a store whose log is full, or one short of it.
InitCap ==
    /\ FreshSession
    /\ DebounceIdle
    /\ AppIdle
    /\ LateIdle
    /\ storedHistory \in {JsonArray(FullLog(HistoryCap - 1)),
                          JsonArray(FullLog(HistoryCap))}
    /\ metaMask \in BOOLEAN
    /\ nonce = 0
    /\ ret = Ret("none", "none")

SpecCap == InitCap /\ [][NextLog]_vars

\* debounce() and the three listeners of setupEventListeners in time.
NextDebounce ==
    \/ \E k \in Kinds : \E args \in Payloads(k) : EventEmitted(k, args)
    \/ \E k \in Kinds : \E i \in DOMAIN pending[k] : Later(k, i)
    \/ Advance

\* The listeners are set on a page with a provider.
InitDebounce ==
    /\ Init
    /\ metaMask
    /\ storedHistory = JsonNull

SpecDebounce == InitDebounce /\ [][NextDebounce]_vars

\* The session with a provider that emits no events, and the feedback
\* form of the application, which is what calls sendReward.
NextApp ==
    \/ ConnectWallet
    \/ \E c \in Calls, code \in ErrorCodes : RequestRejected(c, code)
    \/ \E c \in Calls, accounts \in AccountLists : RequestResolved(c, accounts)
    \/ \E c \in Calls : NetworkChecked(c)
    \/ \E c \in Calls : DemoConnected(c)
    \/ DisconnectWallet
    \/ \E libOk \in BOOLEAN : InitSettled(libOk)
    \/ \E ok \in BOOLEAN, accounts \in AccountLists : InitAccounts(ok, accounts)
    \/ InitTimeout
    \/ \E valid \in BOOLEAN : SubmitFeedback(valid)
    \/ \E saved \in BOOLEAN : SubmitDisplayed(saved)
    \/ RewardSaved

\* The page is loaded with a provider and an empty store.
InitApp ==
    /\ Init
    /\ metaMask
    /\ storedHistory = JsonNull

SpecApp == InitApp /\ [][NextApp]_vars

\* The session with a provider that emits no events and never answers
\* web3.eth.getAccounts(): init() stays suspended at line 827.
NextHang ==
    \/ ConnectWallet
    \/ \E c \in Calls, code \in ErrorCodes : RequestRejected(c, code)
    \/ \E c \in Calls, accounts \in AccountLists : RequestResolved(c, accounts)
    \/ \E c \in Calls : NetworkChecked(c)
    \/ \E c \in Calls : DemoConnected(c)
    \/ DisconnectWallet
    \/ \E libOk \in BOOLEAN : InitSettled(libOk)
    \/ InitTimeout

\* A timer armed with setTimeout fires once its delay is over: the step
\* is taken if it stays possible.
SpecHang == Init /\ [][NextHang]_vars /\ WF_vars(InitTimeout)

\* loadBalance() called on its own: the "refresh balance" item of the
\* wallet menu (line 1353) and the timer of trackReward (line 1291).
LoadBalance ==
    /\ ret' = Loaded(Ret("loadBalance", "undefined"), account)
    /\ UNCHANGED <<sessionVars, callVars, timerVars, logVars, initPc,
                   metaMask, failStreak, exhausted, otherVars>>

\* The reports an earlier session left in the store.
Reports(n) == [i \in 1..n |-> i]

\* The page is loaded on a store that holds up to MaxReports reports.
InitBalance ==
    /\ FreshSession
    /\ DebounceIdle
    /\ AppIdle
    /\ storedReports \in {Reports(n) : n \in 0..MaxReports}
    /\ RetryIdle
    /\ StartIdle
    /\ SideIdle
    /\ storedHistory \in {JsonNull, JsonArray(<<OldTx>>)}
    /\ metaMask \in BOOLEAN
    /\ nonce = 0
    /\ ret = Ret("none", "none")

\* The session with a provider that emits no events, and the balance
\* refreshed at any moment.
NextBalance ==
    \/ ConnectWallet
    \/ \E c \in Calls, code \in ErrorCodes : RequestRejected(c, code)
    \/ \E c \in Calls, accounts \in AccountLists : RequestResolved(c, accounts)
    \/ \E c \in Calls : NetworkChecked(c)
    \/ \E c \in Calls : DemoConnected(c)
    \/ DisconnectWallet
    \/ \E libOk \in BOOLEAN : InitSettled(libOk)
    \/ \E ok \in BOOLEAN, accounts \in AccountLists : InitAccounts(ok, accounts)
    \/ InitTimeout
    \/ LoadBalance

SpecBalance == InitBalance /\ [][NextBalance]_vars

\* The session with a provider that never grants an account: every live
\* attempt is rejected or answered with no account.  connect() and
\* disconnect() calls, initialization, and the accountsChanged and
\* disconnect events of the provider.
NextRetry ==
    \/ ConnectWalletCounted
    \/ \E c \in Calls, code \in ErrorCodes : RequestRejected(c, code)
    \/ \E c \in Calls : RequestResolved(c, <<>>)
    \/ \E c \in Calls : DemoConnected(c)
    \/ DisconnectWallet
    \/ \E libOk \in BOOLEAN : InitSettled(libOk)
    \/ \E ok \in BOOLEAN : InitAccounts(ok, <<>>)
    \/ InitTimeout
    \/ \E accounts \in AccountLists : AccountsChangedEmitted(accounts)
    \/ DisconnectEmitted
    \/ AccountsChangedFired
    \/ DisconnectFired

SpecRetry == Init /\ [][NextRetry]_vars

\* ------------------------------------------------------ the feedback form
\* The limits of the feedback form: feedbackRules (app.js lines 433-435)
\* and validateFeedbackData (lines 793-794).
TitleMin == 5
TitleMax == 100
ContentMin == 10
ContentMax == 2000

\* What handleFeedbackSubmit reads from the form (lines 707-713): the
\* category, the lengths of the trimmed title and content, and the rating
\* (parseInt(...) || 0 of the stars, 0 when none was clicked).
Forms ==
    [category : {"", "academic"},
     title : {0, TitleMin - 1, TitleMin, TitleMax, TitleMax + 1},
     content : {ContentMin - 1, ContentMin, ContentMax, ContentMax + 1},
     rating : {0, 1, 5}]

\* validateFeedbackData(data, form), lines 789-805: true when no error
\* was collected.
validateFeedbackData(data) ==
    /\ data.category # ""
    /\ data.title # 0 /\ ~(data.title < TitleMin)
    /\ data.content # 0 /\ ~(data.content < ContentMin)
    /\ data.rating # 0

\* The submit event of the feedback form with these field values.
SubmitForm(data) == SubmitFeedback(validateFeedbackData(data))

\* The session with a provider that emits no events, and the feedback
\* form filled in by the user.
NextForm ==
    \/ ConnectWallet
    \/ \E c \in Calls, code \in ErrorCodes : RequestRejected(c, code)
    \/ \E c \in Calls, accounts \in AccountLists : RequestResolved(c, accounts)
    \/ \E c \in Calls : NetworkChecked(c)
    \/ \E c \in Calls : DemoConnected(c)
    \/ DisconnectWallet
    \/ \E libOk \in BOOLEAN : InitSettled(libOk)
    \/ \E ok \in BOOLEAN, accounts \in AccountLists : InitAccounts(ok, accounts)
    \/ InitTimeout
    \/ \E data \in Forms : SubmitForm(data)
    \/ \E saved \in BOOLEAN : SubmitDisplayed(saved)
    \/ RewardSaved

SpecForm == InitApp /\ [][NextForm]_vars

\* ------------------------------------------------------ application start
\* The timers of app.js in milliseconds: the retry on an interactive
\* document (line 1102), the final fallback (line 1111), the patience of
\* waitForDependencies() (line 89) and the period of its poll (line 107).
RetryDelay == 100
FallbackDelay == 3000
maxWaitTime == 5000
PollPeriod == 100

\* start() ran lines 53-71 to the end, line 71 included.
Done == [pc |-> "done", initialized |-> TRUE, since |-> pageTime]

\* start() (app.js lines 34-86) resumed past its wait for 'load': with
\* every dependency defined waitForDependencies() (lines 88-115) returns
\* without a timer and lines 53-71 run at once; otherwise it polls every
\* 100 ms for up to maxWaitTime.
Resumed ==
    IF depsReady
    THEN Done
    ELSE [pc |-> "deps", initialized |-> FALSE, since |-> pageTime]

\* new CampusFeedbackApp() and init() (lines 4-32): start() awaits the
\* window's 'load' event unless the document is complete (lines 37-45).
start ==
    IF readyState # "complete"
    THEN [pc |-> "load", initialized |-> FALSE, since |-> pageTime]
    ELSE Resumed

\* initializeApp(), lines 1063-1093: nothing if the present instance is
\* initialized, else a new instance replaces it and is started.
initializeApp ==
    IF app # 0 /\ instances[app].initialized
    THEN UNCHANGED <<app, instances>>
    ELSE /\ instances' = Append(instances, start)
         /\ app' = Len(instances) + 1

\* start() called while the script is evaluated on a complete document
\* (line 1100): 'let notificationManager' (line 1635) is not yet
\* initialized, typeof on it (line 96) throws, and the catch block of
\* start() (lines 82-85) ends the attempt before any setup.
Failed == [pc |-> "failed", initialized |-> FALSE, since |-> 0]

\* The state after app.js has been evaluated (lines 1096-1111), by the
\* readyState it found: the DOMContentLoaded listener is registered and
\* will run if that event is still to come, the 100 ms retry is armed on
\* an interactive document, initializeApp() has been called on a complete
\* one, and the 3 s fallback is armed.
ScriptEvaluated ==
    /\ readyState \in {"loading", "interactive", "complete"}
    /\ domPending \in BOOLEAN
    /\ readyState = "loading" => domPending
    /\ readyState = "complete" => ~domPending
    /\ depsReady = FALSE
    /\ retryTimer = (readyState = "interactive")
    /\ fallbackTimer = TRUE
    /\ app = (IF readyState = "complete" THEN 1 ELSE 0)
    /\ instances = (IF readyState = "complete" THEN <<Failed>> ELSE <<>>)
    /\ pageTime = 0

InitStart ==
    /\ FreshSession
    /\ DebounceIdle
    /\ AppIdle
    /\ ReportsIdle
    /\ RetryIdle
    /\ SideIdle
    /\ ScriptEvaluated
    /\ storedHistory = JsonNull
    /\ metaMask = TRUE
    /\ nonce = 0
    /\ ret = Ret("none", "none")

startRest == <<walletVars, debounceVars, appVars, storedReports, retryVars,
               sideVars>>

\* DOMContentLoaded: the listeners run in the order of their
\* registration, initializeApp (line 1096) and then the one that creates
\* notificationManager and formValidator (lines 1638-1641); those of
\* config.js (line 1416) and voice.js (line 610) create the other two.
DOMContentLoaded ==
    /\ domPending
    /\ domPending' = FALSE
    /\ readyState' = "interactive"
    /\ initializeApp
    /\ depsReady' = TRUE
    /\ UNCHANGED <<retryTimer, fallbackTimer, pageTime, startRest>>

\* The window's 'load' event: every start() waiting for it resumes
\* (line 42).
WindowLoaded ==
    /\ readyState # "complete"
    /\ ~domPending
    /\ readyState' = "complete"
    /\ instances' = [i \in DOMAIN instances |->
                        IF instances[i].pc = "load" THEN Resumed
                        ELSE instances[i]]
    /\ UNCHANGED <<domPending, depsReady, retryTimer, fallbackTimer, app,
                   pageTime, startRest>>

\* The retry armed on an interactive document fires (line 1102).
RetryFired ==
    /\ retryTimer
    /\ pageTime >= RetryDelay
    /\ retryTimer' = FALSE
    /\ initializeApp
    /\ UNCHANGED <<readyState, domPending, depsReady, fallbackTimer,
                   pageTime, startRest>>

\* The final fallback fires (lines 1106-1111).
FinalFallback ==
    /\ fallbackTimer
    /\ pageTime >= FallbackDelay
    /\ fallbackTimer' = FALSE
    /\ IF app = 0 \/ ~instances[app].initialized
       THEN initializeApp
       ELSE UNCHANGED <<app, instances>>
    /\ UNCHANGED <<readyState, domPending, depsReady, retryTimer, pageTime,
                   startRest>>

\* waitForDependencies() gives up (lines 105-111) and start() runs lines
\* 53-71.
DependenciesTimedOut(i) ==
    /\ instances[i].pc = "deps"
    /\ pageTime >= instances[i].since + maxWaitTime
    /\ instances' = [instances EXCEPT ![i] = Done]
    /\ UNCHANGED <<readyState, domPending, depsReady, retryTimer,
                   fallbackTimer, app, pageTime, startRest>>

\* A timer that is due fires before the page grows older.
TimerDue ==
    \/ retryTimer /\ pageTime >= RetryDelay
    \/ fallbackTimer /\ pageTime >= FallbackDelay
    \/ \E i \in DOMAIN instances :
           /\ instances[i].pc = "deps"
           /\ pageTime >= instances[i].since + maxWaitTime

\* Time passes, by the shortest period of the timers.
PageTick ==
    /\ pageTime < MaxPageTime
    /\ ~TimerDue
    /\ pageTime' = pageTime + PollPeriod
    /\ UNCHANGED <<readyState, domPending, depsReady, retryTimer,
                   fallbackTimer, app, instances, startRest>>

NextStart ==
    \/ DOMContentLoaded
    \/ WindowLoaded
    \/ RetryFired
    \/ FinalFallback
    \/ \E i \in DOMAIN instances : DependenciesTimedOut(i)
    \/ PageTick

SpecStart == InitStart /\ [][NextStart]_vars

\* ------------------------------------------------------------ moderation
\* A string is the sequence of its UTF-16 code units, as charCodeAt()
\* gives them; null is the content that is no string.
Str(chars) == [type |-> "string", chars |-> chars]
NullContent == [type |-> "null", chars |-> <<>>]

\* bannedWords, moderation.js lines 67-70: spam, scam, fake, hate,
\* offensive, inappropriate, violent, harassment.
bannedWords ==
    <<<<115, 112, 97, 109>>,
      <<115, 99, 97, 109>>,
      <<102, 97, 107, 101>>,
      <<104, 97, 116, 101>>,
      <<111, 102, 102, 101, 110, 115, 105, 118, 101>>,
      <<105, 110, 97, 112, 112, 114, 111, 112, 114, 105, 97, 116, 101>>,
      <<118, 105, 111, 108, 101, 110, 116>>,
      <<104, 97, 114, 97, 115, 115, 109, 101, 110, 116>>>>

\* positiveWords, line 128: good, great, excellent, amazing, helpful,
\* useful, love, like.
positiveWords ==
    <<<<103, 111, 111, 100>>,
      <<103, 114, 101, 97, 116>>,
      <<101, 120, 99, 101, 108, 108, 101, 110, 116>>,
      <<97, 109, 97, 122, 105, 110, 103>>,
      <<104, 101, 108, 112, 102, 117, 108>>,
      <<117, 115, 101, 102, 117, 108>>,
      <<108, 111, 118, 101>>,
      <<108, 105, 107, 101>>>>

\* negativeWords, line 129: bad, terrible, awful, hate, horrible, worst,
\* disgusting.
negativeWords ==
    <<<<98, 97, 100>>,
      <<116, 101, 114, 114, 105, 98, 108, 101>>,
      <<97, 119, 102, 117, 108>>,
      <<104, 97, 116, 101>>,
      <<104, 111, 114, 114, 105, 98, 108, 101>>,
      <<119, 111, 114, 115, 116>>,
      <<100, 105, 115, 103, 117, 115, 116, 105, 110, 103>>>>

\* String.prototype.toLowerCase on the letters A-Z.
toLowerCase(s) ==
    [i \in DOMAIN s |-> IF s[i] \in 65..90 THEN s[i] + 32 ELSE s[i]]

\* String.prototype.includes.
includes(s, w) ==
    \E i \in 1..(Len(s) - Len(w) + 1) : SubSeq(s, i, i + Len(w) - 1) = w

\* The character classes of the patterns: \w, \s (the ASCII part and the
\* no-break space), and the line terminators that . does not match.
IsWordChar(c) == c \in 48..57 \/ c \in 65..90 \/ c \in 97..122 \/ c = 95
IsSpace(c) == c \in {9, 10, 11, 12, 13, 32, 160}
IsLineEnd(c) == c \in {10, 13, 8232, 8233}
IsCapital(c) == c \in 65..90
IsDigit(c) == c \in 48..57

\* n adjacent characters of s are all of one class.
RunOf(s, n, Ok(_)) ==
    \E i \in 1..(Len(s) - n + 1) : \A j \in i..(i + n - 1) : Ok(s[j])

\* suspiciousPatterns, lines 72-78, each as test() applies it to a fresh
\* expression.  /(.)\1{10,}/: a character and ten repetitions of it.
RepeatedChars(s) ==
    \E i \in 1..(Len(s) - 10) :
        /\ ~IsLineEnd(s[i])
        /\ \A j \in i..(i + 10) : s[j] = s[i]

\* /[A-Z]{20,}/ and /\d{10,}/.
LongCapitals(s) == RunOf(s, 20, IsCapital)
LongNumber(s) == RunOf(s, 10, IsDigit)

\* /@\w+\.(com|net|org)/.
EmailPattern(s) ==
    \E i \in DOMAIN s : \E k \in 1..Len(s) :
        /\ s[i] = 64
        /\ i + k + 4 <= Len(s)
        /\ \A j \in (i + 1)..(i + k) : IsWordChar(s[j])
        /\ s[i + k + 1] = 46
        /\ SubSeq(s, i + k + 2, i + k + 4)
               \in {<<99, 111, 109>>, <<110, 101, 116>>, <<111, 114, 103>>}

\* /https?:\/\/\S+/.
UrlPattern(s) ==
    \E i \in DOMAIN s : \E j \in {i + 4, i + 5} :
        /\ j + 3 <= Len(s)
        /\ SubSeq(s, i, i + 3) = <<104, 116, 116, 112>>
        /\ j = i + 5 => s[i + 4] = 115
        /\ SubSeq(s, j, j + 2) = <<58, 47, 47>>
        /\ ~IsSpace(s[j + 3])

\* content.split(' ').length: one more than the spaces of the content.
SplitLength(s) == Cardinality({i \in DOMAIN s : s[i] = 32}) + 1

\* One entry of issues: its text and, for a banned word, the word.
Issue(text, word) == [text |-> text, word |-> word]
IssueIf(flag, text) == IF flag THEN <<Issue(text, <<>>)>> ELSE <<>>

\* CONFIG.AI.MODERATION.MAX_TOXICITY (config.js line 42) and the size the
\* cache is cut back to (moderation.js line 42); scores are in hundredths.
MAX_TOXICITY == 70
CacheLimit == 100

\* simulateModeration(content, type), lines 62-167, after its delay:
\* scores in hundredths.  The sums of the code are doubles: three times
\* -0.1 is below -0.3, which is what the test of line 140 sees, and no
\* content of the model reaches a score that rounding could move across
\* the threshold.  suggestions, a function of issues, is left out.
simulateModeration(content) ==
    LET s == content.chars
        lowerContent == toLowerCase(s)
        found == SelectSeq(bannedWords, LAMBDA w : includes(lowerContent, w))
        short == Len(s) < 5
        loose == SplitLength(s) < 3
        positives == Len(SelectSeq(positiveWords,
                                   LAMBDA w : includes(lowerContent, w)))
        negatives == Len(SelectSeq(negativeWords,
                                   LAMBDA w : includes(lowerContent, w)))
        sentimentScore == 10 * positives - 10 * negatives
        veryNegative == sentimentScore <= -30
        patterns == IssueIf(RepeatedChars(s),
                            "Contains excessive repeated characters")
                    \o IssueIf(LongCapitals(s),
                               "Contains excessive capital letters")
                    \o IssueIf(EmailPattern(s), "Contains email addresses")
                    \o IssueIf(UrlPattern(s), "Contains URLs")
                    \o IssueIf(LongNumber(s), "Contains phone numbers")
        toxicityScore == 30 * Len(found) + 20 * Len(patterns)
                         + (IF short THEN 10 ELSE 0)
                         + (IF loose THEN 10 ELSE 0)
                         + (IF veryNegative THEN 20 ELSE 0)
        approved == toxicityScore < MAX_TOXICITY
    IN [approved |-> approved,
        confidence |-> IF toxicityScore > 100 THEN 0 ELSE 100 - toxicityScore,
        toxicityScore |-> toxicityScore,
        issues |-> [i \in 1..Len(found) |->
                       Issue("Contains potentially harmful word", found[i])]
                   \o patterns
                   \o IssueIf(short, "Content is too short")
                   \o IssueIf(loose, "Content lacks proper structure")
                   \o IssueIf(veryNegative,
                              "Content has very negative sentiment"),
        sentiment |-> IF sentimentScore > 0 THEN "positive"
                      ELSE IF sentimentScore < 0 THEN "negative"
                      ELSE "neutral",
        reason |-> IF approved THEN "Content approved"
                   ELSE "Content flagged for review",
        error |-> "none"]

\* generateCacheKey(content), lines 195-204: hash = hash * 31 + char kept
\* in 32 bits, here as the two 16-bit halves <<high, low>> of the word;
\* the decimal string of line 203 is one-to-one with them.
RECURSIVE HashFrom(_, _, _)
HashFrom(s, i, hash) ==
    IF i > Len(s) THEN hash
    ELSE LET low == hash[2] * 31 + s[i]
             high == hash[1] * 31 + (low \div 65536)
         IN HashFrom(s, i + 1, <<high % 65536, low % 65536>>)

generateCacheKey(content) == HashFrom(content.chars, 1, <<0, 0>>)

\* Map.prototype.has and get on the cache.
CacheHas(key) == \E i \in DOMAIN cache : cache[i].key = key
CacheGet(key) ==
    cache[CHOOSE i \in DOMAIN cache : cache[i].key = key].verdict

\* The order of insertion of the newest entry of a cache.
Newest(entries) ==
    IF entries = <<>> THEN 0
    ELSE CHOOSE n \in {entries[i].at : i \in DOMAIN entries} :
             \A i \in DOMAIN entries : entries[i].at <= n

\* Map.prototype.set, line 39: a key the map holds keeps its place and
\* takes the new value, a new key goes last.  at is history: the order
\* of insertion of the key.
CacheSet(entries, key, verdict) ==
    IF \E i \in DOMAIN entries : entries[i].key = key
    THEN [i \in DOMAIN entries |->
             IF entries[i].key = key
             THEN [entries[i] EXCEPT !.verdict = verdict]
             ELSE entries[i]]
    ELSE Append(entries, [key |-> key, verdict |-> verdict,
                          at |-> Newest(entries) + 1])

\* A cleaning that deletes the key before the last one.
CleanedLate(entries) ==
    IF Len(entries) > CacheLimit
    THEN SubSeq(entries, 1, Len(entries) - 2) \o <<entries[Len(entries)]>>
    ELSE entries

\* Lines 42-45: past CacheLimit entries the first key of the map is
\* deleted.
Cleaned(entries) ==
    IF Len(entries) > CacheLimit THEN Tail(entries) ELSE entries

\* A catch block that hands the failure on.
FailSafeRethrown ==
    [approved |-> FALSE, confidence |-> -1, toxicityScore |-> -1,
     issues |-> <<>>, sentiment |-> "none", reason |-> "throws",
     error |-> "Cannot read properties of null (reading 'length')"]

\* What the catch block returns, lines 49-59, for the TypeError that
\* content.length (line 198) raises on null; the fields the object lacks
\* are as in NoVerdict.
FailSafe ==
    [approved |-> TRUE, confidence |-> 50, toxicityScore |-> -1,
     issues |-> <<>>, sentiment |-> "none",
     reason |-> "Moderation service unavailable",
     error |-> "Cannot read properties of null (reading 'length')"]

\* generateCacheKey(content) throws: content has no length to read.
Throws(content) == content.type # "string"

\* moderateContent(content), lines 16-36, up to its await: the position
\* the call is left at, and what it has returned if it is over.
PcAfter(content) ==
    IF ~Throws(content) /\ ~CacheHas(generateCacheKey(content))
    THEN "simulating"
    ELSE "idle"

ReturnedAtOnce(content) ==
    IF Throws(content) THEN [content |-> content, verdict |-> FailSafe]
    ELSE IF CacheHas(generateCacheKey(content))
    THEN [content |-> content,
          verdict |-> CacheGet(generateCacheKey(content))]
    ELSE NoResult

modRest == <<walletVars, debounceVars, appVars, storedReports, retryVars,
             startVars, voiceVars, noteVars>>

\* moderateContent(content) is called.
ModerateContent(c, content) ==
    /\ modPc[c] = "idle"
    /\ modPc' = [modPc EXCEPT ![c] = PcAfter(content)]
    /\ modContent' = [modContent EXCEPT ![c] =
                         IF PcAfter(content) = "simulating" THEN content
                         ELSE NoContent]
    /\ modResult' = [modResult EXCEPT ![c] = ReturnedAtOnce(content)]
    /\ UNCHANGED <<cache, modRest>>

\* moderateBatch(contents), lines 281-291: map() calls moderateContent
\* for every content before any of the calls resumes.
ModerateBatch(contents) ==
    /\ \A c \in DOMAIN contents : modPc[c] = "idle"
    /\ modPc' = [c \in ModCalls |->
                    IF c \in DOMAIN contents THEN PcAfter(contents[c])
                    ELSE modPc[c]]
    /\ modContent' = [c \in ModCalls |->
                         IF c \in DOMAIN contents
                         THEN IF PcAfter(contents[c]) = "simulating"
                              THEN contents[c] ELSE NoContent
                         ELSE modContent[c]]
    /\ modResult' = [c \in ModCalls |->
                        IF c \in DOMAIN contents
                        THEN ReturnedAtOnce(contents[c])
                        ELSE modResult[c]]
    /\ UNCHANGED <<cache, modRest>>

\* simulateModeration() has resolved, lines 36-47: the result is cached,
\* the cache is cleaned and the result returned.
ModerationDone(c) ==
    /\ modPc[c] = "simulating"
    /\ LET result == simulateModeration(modContent[c])
       IN /\ cache' = Cleaned(CacheSet(cache,
                                       generateCacheKey(modContent[c]),
                                       result))
          /\ modResult' = [modResult EXCEPT ![c] =
                              [content |-> modContent[c], verdict |-> result]]
    /\ modPc' = [modPc EXCEPT ![c] = "idle"]
    /\ modContent' = [modContent EXCEPT ![c] = NoContent]
    /\ UNCHANGED modRest

\* The contents of the model.  Filler(i) is the three digits of i.
Filler(i) ==
    Str(<<48 + (i \div 100), 48 + ((i \div 10) % 10), 48 + (i % 10)>>)

\* "this is spam ok", and "this is spbN ok", which has the same hash.
SpamContent ==
    Str(<<116, 104, 105, 115, 32, 105, 115, 32, 115, 112, 97, 109, 32, 111,
          107>>)
TwinContent ==
    Str(<<116, 104, 105, 115, 32, 105, 115, 32, 115, 112, 98, 78, 32, 111,
          107>>)

Contents == {SpamContent, TwinContent, Filler(1), NullContent}

\* The cache after the first n fillers have been moderated one by one.
Filled(n) ==
    [i \in 1..n |-> [key |-> generateCacheKey(Filler(i)),
                     verdict |-> simulateModeration(Filler(i)), at |-> i]]

\* The moderation system with an empty cache, or one that is full or one
\* short of it.
InitMod ==
    /\ FreshSession
    /\ DebounceIdle
    /\ AppIdle
    /\ ReportsIdle
    /\ RetryIdle
    /\ StartIdle
    /\ VoiceIdle
    /\ NoteIdle
    /\ cache \in {Filled(0), Filled(CacheLimit - 1), Filled(CacheLimit)}
    /\ modPc = [c \in ModCalls |-> "idle"]
    /\ modContent = [c \in ModCalls |-> NoContent]
    /\ modResult = [c \in ModCalls |-> NoResult]
    /\ storedHistory = JsonNull
    /\ metaMask = TRUE
    /\ nonce = 0
    /\ ret = Ret("none", "none")

NextMod ==
    \/ \E c \in ModCalls, content \in Contents : ModerateContent(c, content)
    \/ \E a, b \in Contents : ModerateBatch(<<a, b>>)
    \/ \E c \in ModCalls : ModerationDone(c)

SpecMod == InitMod /\ [][NextMod]_vars

TypeOK ==
    /\ account \in Accounts \cup {Null, DemoAccount}
    /\ connectionAttempts \in Nat
    /\ callPc \in [Calls -> {"idle", "request", "network", "demoWait"}]
    /\ transactionHistory.kind \in {"array", "object"}
    /\ Len(transactionHistory.items) <= HistoryCap

\* ================================================================ claims
Requests == {c \in Calls : callPc[c] = "request"}
Sequences == {c \in Calls : InFlight(c)}

\* C1: at most one eth_requestAccounts request of connectWallet is
\* outstanding at any time, however connect() calls and provider
\* responses interleave.
C1_OneLiveRequest == Cardinality(Requests) <= 1

\* C1 witness: connect() was called while an earlier call still waits
\* for the provider, and was turned away.
C1_Witness ==
    /\ Requests # {}
    /\ isConnecting
    /\ ret.val = "false"

\* C7: the attempt counter stays within 0..maxConnectionAttempts.
C7_AttemptsBounded ==
    /\ connectionAttempts >= 0
    /\ connectionAttempts <= maxConnectionAttempts

\* C7 witness: the counter is at its maximum and connect() was called
\* once more.
C7_Witness ==
    /\ connectionAttempts = maxConnectionAttempts
    /\ exhausted
    /\ ret.val = "false"

\* ---- steps the claims speak about
\* A live attempt that had sent its request fails: the provider rejects
\* or answers with no account.
AttemptFailedWith(c, code) ==
    \/ RequestRejected(c, code)
    \/ code = OtherError /\ RequestResolved(c, <<>>)
AttemptFailed(c) == \E code \in ErrorCodes : AttemptFailedWith(c, code)

\* A live attempt fails before its request: the provider is unavailable.
AttemptFailedEarly ==
    /\ ~isConnecting /\ ~demoMode /\ ~metaMask
    /\ connectionAttempts < maxConnectionAttempts
    /\ ConnectWallet

\* connect() finds the attempts used up.
CallOnExhausted ==
    /\ ~isConnecting /\ ~demoMode
    /\ connectionAttempts >= maxConnectionAttempts
    /\ ConnectWallet

\* connect() is called while an attempt is in flight.
CallWhileConnecting == isConnecting /\ ConnectWallet

\* The activation c of connectWallet returns in this step.
Returns(c) == InFlight(c) /\ callPc'[c] = "idle" /\ ret'.op = "connectWallet"

\* C2: at most one connect sequence is between the isConnecting guard and
\* its finally block, and isConnecting is true exactly while one is.
C2_OneSequenceInFlight ==
    /\ Cardinality(Sequences) <= 1
    /\ isConnecting <=> Cardinality(Sequences) = 1

\* C3: a connect() call made after three failed live attempts in a row
\* sends no request to the provider and has the session in demo mode when
\* it returns.
C3_FourthCallIsDemo ==
    [][/\ (ConnectWallet /\ failStreak >= maxConnectionAttempts)
            => /\ \A c \in Calls : callPc'[c] = "request"
                                      => callPc[c] = "request"
               /\ ret'.val # "pending" => demoMode'
       /\ \A c \in Calls :
            (Returns(c) /\ callStreak[c] >= maxConnectionAttempts)
                => demoMode']_vars

C5_DemoIsPermanent == exhausted => demoMode

\* C6: connect() called while an attempt is in flight returns false and
\* changes nothing.
C6_BusyConnectIsNoOp ==
    [][CallWhileConnecting
         => /\ ret'.val = "false"
            /\ UNCHANGED <<account, isConnected, demoMode,
                           connectionAttempts, transactionHistory,
                           storedHistory, callPc, isConnecting>>]_vars

\* C6 witness: a connect() was turned away while a demo connect was in
\* flight, with a reward of an earlier session in the log.
C6_Witness ==
    /\ ret = Ret("connectWallet", "false")
    /\ isConnecting
    /\ \E c \in Calls : callPc[c] = "demoWait"
    /\ transactionHistory.items # <<>>

\* C8: a live connect() that got at least one account returns with the
\* session Connected to the first of them, the counter at 0 and
\* isConnecting false.
C8_ConnectedOnReturn ==
    [][/\ \A c \in Calls :
            NetworkChecked(c)
               => /\ isConnected'
                  /\ account' = callAccounts[c][1]
                  /\ connectionAttempts' = 0
                  /\ ~isConnecting'
       /\ \A c \in Calls, accounts \in AccountLists \ {<<>>} :
            (RequestResolved(c, accounts) /\ Returns(c))
               => /\ isConnected'
                  /\ account' = accounts[1]
                  /\ connectionAttempts' = 0
                  /\ ~isConnecting']_vars

\* C9 as claimed: after a connect() attempt that fails the session is
\* Disconnected.
C9_FailureDisconnects ==
    [][((\E c \in Calls : AttemptFailed(c))
          \/ AttemptFailedEarly \/ CallOnExhausted)
         => ~isConnected' /\ account' = Null]_vars

\* C9 amended: a connect() attempt that fails leaves account and
\* isConnected as they were just before the failure.
C9_FailureKeepsAccount ==
    [][((\E c \in Calls : AttemptFailed(c))
          \/ AttemptFailedEarly \/ CallOnExhausted)
         => UNCHANGED <<account, isConnected>>]_vars

\* C9 witness: an attempt has failed in a session that is Connected.
C9_Witness ==
    /\ ret.op = "connectWallet" /\ ret.val = "false" /\ ret.note # <<>>
    /\ ~isConnecting
    /\ failStreak >= 1
    /\ isConnected /\ account \in Accounts

\* C10: a debounced accountsChanged or disconnect handler that runs while
\* isConnecting is true leaves account and isConnected alone.
C10_EventsSuppressed ==
    [][((AccountsChangedFired \/ DisconnectFired) /\ isConnecting)
         => UNCHANGED <<account, isConnected>>]_vars

\* C10 witness: a handler has run during the network check of a connect()
\* that had already stored its account.
C10_Witness ==
    /\ ret.op \in {"accountsChanged", "disconnect"}
    /\ isConnecting
    /\ isConnected
    /\ \E c \in Calls : callPc[c] = "network"

\* ---- disconnect
\* disconnect() is called while a connect attempt is in flight.
DisconnectWhileConnecting == isConnecting /\ DisconnectWallet

\* disconnect() is called while no connect attempt is in flight.
DisconnectWhileIdle == ~isConnecting /\ DisconnectWallet

\* C11 as claimed: disconnect() called while a connect attempt is in
\* flight leaves account, isConnected and connectionAttempts alone and
\* gives its caller something a performed disconnect does not give.
C11_ConflictSignalled ==
    [][/\ DisconnectWhileConnecting
            => UNCHANGED <<account, isConnected, connectionAttempts>>
       /\ DisconnectWhileIdle => ret'.val = "undefined"
       /\ DisconnectWhileConnecting => ret'.val # "undefined"]_vars

\* C11 amended: disconnect() called while a connect attempt is in flight
\* leaves account, isConnected and connectionAttempts alone and shows no
\* notification; its promise resolves to undefined, as that of a performed
\* disconnect does.
C11_BusyDisconnectIsNoOp ==
    [][/\ DisconnectWhileConnecting
            => /\ UNCHANGED <<account, isConnected, connectionAttempts>>
               /\ ret'.note = <<>>
               /\ ret'.val = "undefined"
       /\ DisconnectWhileIdle => ret'.val = "undefined"]_vars

\* C11 witness: disconnect() was turned away during the network check of
\* a connect() that had already stored its account.
C11_Witness ==
    /\ ret = Ret("disconnectWallet", "undefined")
    /\ isConnecting
    /\ isConnected /\ account \in Accounts
    /\ connectionAttempts = 0

\* C12: disconnect() called while no connect attempt is in flight sets
\* account to null, isConnected to false and connectionAttempts to 0,
\* shows exactly one notification, which names the demo wallet exactly in
\* demo mode, and leaves demoMode alone.
C12_DisconnectClears ==
    [][DisconnectWhileIdle
         => /\ account' = Null
            /\ ~isConnected'
            /\ connectionAttempts' = 0
            /\ Len(ret'.note) = 1
            /\ ret'.note[1] = (IF demoMode THEN "Demo wallet disconnected"
                                           ELSE "Wallet disconnected")
            /\ UNCHANGED demoMode]_vars

\* C12 witness: a demo wallet has been disconnected.
C12_Witness ==
    /\ ret = Told(Ret("disconnectWallet", "undefined"),
                  "Demo wallet disconnected")
    /\ demoMode /\ ~isConnected /\ account = Null
    /\ ~isConnecting

\* ---- rewards
\* sendReward(recipient) is called.
RewardCall(recipient) == \E saved \in BOOLEAN : SendReward(recipient, saved)

\* C13: sendReward never throws and returns a non-empty hash, in every
\* session state and whatever the store held at startup.
C13_RewardNeverThrows ==
    [][\A recipient \in Recipients :
         RewardCall(recipient)
            => /\ ret'.val = "hash"
               /\ ret'.hash # <<>>
               /\ ret'.hash[1] # ""]_vars

\* C14: each sendReward call puts exactly one record in front of the log:
\* simulated with to = "Pending Connection" when Disconnected, a demo
\* record with status confirmed and to = recipient when Connected in demo
\* mode, tracked with to = recipient when Connected in live mode; the call
\* returns the hash of that record.
C14_OneRecordByState ==
    [][\A recipient \in Recipients :
         RewardCall(recipient)
            => LET old == transactionHistory.items
                   new == transactionHistory'.items
               IN /\ Len(new) = Len(old) + 1
                  /\ Tail(new) = old
                  /\ new[1].hash = ret'.hash
                  /\ new[1].type = "reward"
                  /\ ~isConnected
                       => /\ new[1].status = "simulated"
                          /\ new[1].to = PendingConnection
                          /\ ~new[1].demo
                  /\ (isConnected /\ demoMode)
                       => /\ new[1].status = "confirmed"
                          /\ new[1].to = recipient
                          /\ new[1].demo
                  /\ (isConnected /\ ~demoMode)
                       => /\ new[1].status = "tracked"
                          /\ new[1].to = recipient
                          /\ ~new[1].demo]_vars

\* C14 witness: a reward was tracked for a wallet Connected in live mode,
\* on top of an earlier record.
C14_Witness ==
    /\ ret.op = "sendReward" /\ ret.val = "hash"
    /\ isConnected /\ ~demoMode
    /\ Len(transactionHistory.items) >= 2
    /\ transactionHistory.items[1].status = "tracked"
    /\ transactionHistory.items[1].hash = ret.hash

\* C15: the log never holds more than 50 records, in memory or in the
\* store; a sendReward on a log of 50 drops its oldest record, keeps the
\* other 49 in their order and puts the new record in front.
C15_CapEvictsOldest ==
    [][/\ Len(transactionHistory.items) <= HistoryCap
       /\ Len(storedHistory.items) <= HistoryCap
       /\ Len(transactionHistory'.items) <= HistoryCap
       /\ Len(storedHistory'.items) <= HistoryCap
       /\ \A recipient \in Recipients :
            (RewardCall(recipient)
               /\ Len(transactionHistory.items) = HistoryCap)
               => LET old == transactionHistory.items
                      new == transactionHistory'.items
                  IN /\ Len(new) = HistoryCap
                     /\ new[1].hash = ret'.hash
                     /\ Tail(new) = SubSeq(old, 1, HistoryCap - 1)]_vars

\* C15 witness: a reward was recorded on a full log; the record that was
\* second oldest is now the oldest.
C15_Witness ==
    /\ ret.op = "sendReward" /\ ret.val = "hash"
    /\ Len(transactionHistory.items) = HistoryCap
    /\ transactionHistory.items[1].hash = ret.hash
    /\ transactionHistory.items[HistoryCap]
         = FullLog(HistoryCap)[HistoryCap - 1]

\* C16: a record that is in the store stays in the store (the cap is out
\* of reach here), and once startup has loaded the log every stored
\* record is in memory too, however sendReward calls and the startup load
\* interleave.
C16_LogAppendOnly ==
    [][/\ initPc' = "done"
            => \A i \in DOMAIN storedHistory'.items :
                 \E j \in DOMAIN transactionHistory'.items :
                    transactionHistory'.items[j] = storedHistory'.items[i]
       /\ \A i \in DOMAIN storedHistory.items :
            \E j \in DOMAIN storedHistory'.items :
               storedHistory'.items[j] = storedHistory.items[i]]_vars

\* ---- provider events
\* The accountsChanged handler runs, not suppressed, with a payload whose
\* first address is the account the session is Connected to.
SameAccountFired ==
    /\ AccountsChangedFired
    /\ ~isConnecting
    /\ isConnected
    /\ Len(accountsTimer[1]) > 0
    /\ FirstAccount(accountsTimer[1]) = account

\* C18: an accountsChanged event that carries the address the session is
\* Connected to changes nothing of the session, the connect calls in
\* flight or the log, and reloads no balance; so any number of them leave
\* the state they found.
C18_SameAccountIsNoOp ==
    [][SameAccountFired
         => /\ UNCHANGED <<account, isConnected, demoMode,
                           connectionAttempts>>
            /\ UNCHANGED <<sessionVars, callVars, logVars>>
            /\ ret'.balance = "none"
            /\ ret'.note = <<>>]_vars

\* C18 witness: the handler has run, not suppressed, in a Connected
\* session and neither disconnected it nor reloaded the balance: its
\* payload began with the present account.
C18_Witness ==
    /\ ret = Ret("accountsChanged", "none")
    /\ ~isConnecting
    /\ isConnected /\ account \in Accounts

\* ---- initialization
\* What getStats() (lines 1389-1398) reports of a session that has fallen
\* back to demo mode and is not connected.
StatsDemoIdle == isInitialized /\ ~isConnected /\ demoMode

\* A step of a connect() call: its entry or its resumption.
ConnectStep ==
    \/ ConnectWallet
    \/ \E c \in Calls : InFlight(c) /\ callPc'[c] # callPc[c]

\* C20: while the provider is unavailable, init() leaves the session
\* initialized and in demo mode when it resumes after its settle delay,
\* so that this holds whenever the 5 s initialization timer is no longer
\* pending; isConnected becomes true only by a step of a connect() call,
\* and once getStats() reports initialized, not connected and demo mode,
\* every step that is not a step of a connect() call keeps it so.
C20_DemoWithoutProvider ==
    [][~metaMask
         => /\ (\E libOk \in BOOLEAN : InitSettled(libOk))
                 => isInitialized' /\ demoMode'
            /\ ~initializationTimeout' => isInitialized' /\ demoMode'
            /\ (~isConnected /\ isConnected') => ConnectStep
            /\ (StatsDemoIdle /\ ~ConnectStep) => StatsDemoIdle']_vars

\* C20 witness: without a provider and without any connect() call, init()
\* has finished and the session is initialized, in demo mode, not
\* connected.
C20_Witness ==
    /\ ~metaMask
    /\ initPc = "done"
    /\ ~initializationTimeout
    /\ StatsDemoIdle
    /\ ~exhausted /\ connectionAttempts = 0 /\ failStreak = 0
    /\ IdleCalls = Calls

\* C19: of a burst of events of one kind only the last is acted upon:
\* the handler has run at most once since the last event, that run was
\* one window (500 ms, 1000 ms for chainChanged) after that event and
\* with its arguments, and once more than a window has passed since the
\* last event the handler has run.
C19_BurstRunsOnce ==
    \A k \in Kinds :
       /\ Len(runs[k]) <= 1
       /\ runs[k] # <<>>
            => /\ lastEvent[k] # <<>>
               /\ runs[k][1] = [at |-> lastEvent[k][1].at + Wait(k),
                                args |-> lastEvent[k][1].args]
       /\ (lastEvent[k] # <<>> /\ clock > lastEvent[k][1].at + Wait(k))
            => runs[k] # <<>>

\* C19 witness: a burst of accountsChanged events has ended and the
\* handler has run for its last event, and a burst of chainChanged events
\* is still waiting for its run.
C19_Witness ==
    /\ lastEvent["accountsChanged"] # <<>>
    /\ lastEvent["accountsChanged"][1].nth = MaxBurst
    /\ Len(runs["accountsChanged"]) = 1
    /\ runs["accountsChanged"][1].args = <<"0xB", "0xA">>
    /\ lastEvent["chainChanged"] # <<>>
    /\ lastEvent["chainChanged"][1].nth = MaxBurst
    /\ pending["chainChanged"] # <<>>

\* ---- contributions
\* C17: handling an accepted feedback submission puts exactly one reward
\* record in front of the transaction log, in every wallet state, and no
\* other step of the submission touches the log.
C17_OneRewardPerContribution ==
    [][/\ (\E saved \in BOOLEAN : SubmitDisplayed(saved))
            => /\ Len(transactionHistory'.items)
                    = Len(transactionHistory.items) + 1
               /\ transactionHistory'.items[1].type = "reward"
       /\ ((\E valid \in BOOLEAN : SubmitFeedback(valid)) \/ RewardSaved)
            => UNCHANGED transactionHistory]_vars

\* ---- initialization that is left waiting
\* init() is suspended in checkExistingConnection, waiting for
\* web3.eth.getAccounts() (line 827).
QueryPending == initPc = "getAccounts"

\* The initialization timer is no longer armed and the session is
\* initialized; it is in demo mode if the timer has fired.  The timer does
\* not fire when connect() ran out of attempts first: that fallback
\* disarms it (lines 860-862).
FallenBack ==
    /\ ~initializationTimeout
    /\ isInitialized
    /\ ~exhausted => demoMode

\* C21: when the account query of init() never resolves, the session
\* still becomes initialized, and it is in demo mode once the 5 s timer
\* has fired: from every state in which the query is pending a state is
\* reached in which the timer is no longer pending, the session is
\* initialized and, the timer having fired, in demo mode.
C21_InitNeverHangs == QueryPending ~> FallenBack

\* C21 witness: the query is still pending, the timer has fired and put
\* the session in demo mode; no connect() call was made.
C21_Witness ==
    /\ QueryPending
    /\ FallenBack
    /\ web3 /\ ~exhausted /\ demoMode
    /\ connectionAttempts = 0
    /\ IdleCalls = Calls

\* ---- connection state
\* What getStats() (lines 1389-1398) reports as connected and connecting.
StatsConnected == isConnected
StatsConnecting == isConnecting

\* C22: the connection state is one of Disconnected, Connecting and
\* Connected: getStats() never reports connected and connecting together.
C22_OneConnectionState == ~(StatsConnected /\ StatsConnecting)

\* ---- the store fails
\* sendReward(recipient) is called and UTILS.storage.set cannot write
\* (localStorage.setItem throws, line 182; set returns false, line 186).
RewardCallUnsaved(recipient) == SendReward(recipient, FALSE)

\* C23: a sendReward whose write to the store fails still puts its record
\* in front of the in-memory log and returns the hash of that record; it
\* does not throw and leaves the store as it was.  This holds in every
\* state, so also for the calls that follow a failed write.
C23_WriteFailureTolerated ==
    [][\A recipient \in Recipients :
         RewardCallUnsaved(recipient)
            => LET old == transactionHistory.items
                   new == transactionHistory'.items
               IN /\ ret'.val = "hash"
                  /\ ret'.hash # <<>>
                  /\ Len(new) = Len(old) + 1
                  /\ Tail(new) = old
                  /\ new[1].hash = ret'.hash
                  /\ UNCHANGED storedHistory]_vars

\* C23 witness: after startup on an empty store two rewards were
\* recorded, both writes failed: the log holds both, the store nothing.
C23_Witness ==
    /\ initPc = "done"
    /\ ret.op = "sendReward" /\ ret.val = "hash"
    /\ storedHistory = JsonNull
    /\ Len(transactionHistory.items) = 2
    /\ transactionHistory.items[1].hash = ret.hash

\* ---- balance
\* The balance of n contributions as a text: n x 0.01, on top of 0.123
\* in demo mode.
BalanceOf(n, demo) ==
    LET thousandths == (IF demo THEN 123 ELSE 0) + 10 * n
    IN <<thousandths \div 1000, thousandths % 1000>>

ConnectingNotes == {"Connecting demo wallet..."}

\* How many of them a step handed to showNotification.
ConnectingShown(r) ==
    Cardinality({i \in DOMAIN r.note : r.note[i] \in ConnectingNotes})

\* connect() passes its guards and becomes an attempt, live (line 892) or
\* demo (line 965).
AttemptStarted ==
    /\ ConnectWallet
    /\ ~isConnecting
    /\ demoMode \/ connectionAttempts < maxConnectionAttempts

\* C25: every connect attempt, live or demo, hands exactly one
\* "connecting" message to showNotification, when it begins, and no other
\* step hands one.
C25_OneConnectingNote ==
    [][/\ AttemptStarted => ConnectingShown(ret') = 1
       /\ ~AttemptStarted => ConnectingShown(ret') = 0]_vars

\* ---- retries
\* C26: while every live attempt fails, no more than maxConnectionAttempts
\* requests are sent to the provider, however connect() calls interleave
\* with disconnect() calls and provider events.
C26_RequestsBounded == requestsSent <= maxConnectionAttempts

\* ---- account and connection flag
\* C27: in every reachable state isConnected is true exactly when account
\* is non-null.
C27_ConnectedIffAccount == isConnected <=> (account # Null)

\* A provider event has replaced the account of a connected session.
C27_Witness ==
    /\ ret.op = "accountsChanged"
    /\ isConnected
    /\ account = "0xB"


\* ---- connection established
\* init() has run to its end: the startup connection check is over.
InitOver == initPc = "done"

\* C28: after initialization the session goes from Disconnected to
\* Connected only by a step of a connect() call; no provider event alone
\* makes isConnected true.
C28_ConnectedOnlyByConnect ==
    [][(InitOver /\ ~isConnected /\ isConnected') => ConnectStep]_vars


\* ---- writers of the connection
\* C29: while a connect sequence is in flight (isConnecting), account and
\* isConnected are written only by a step of a connect() call; the
\* startup connection check does not modify them.
C29_ConnectOwnsConnection ==
    [][(isConnecting /\ <<account, isConnected>>' # <<account, isConnected>>)
           => ConnectStep]_vars


\* ---- application start
\* The instances whose start() has run its setup to the end (lines 53-71).
Started == {i \in DOMAIN instances : instances[i].pc = "done"}

\* C30: the start sequence of the application runs at most once, however
\* the initializeApp() calls of the DOMContentLoaded handler, the 100 ms
\* retry and the 3 s fallback are timed.
C30_StartsOnce == Cardinality(Started) <= 1


\* ---- feedback lists
\* How many times id occurs in list.
Occurrences(list, id) == Cardinality({i \in DOMAIN list : list[i] = id})

\* C31: the in-memory feedback list and the persisted one hold the same
\* ids with the same multiplicity, each id once.
C31_FeedbackListsAgree ==
    \A id \in 1..lastId :
        /\ Occurrences(feedbacks, id) = Occurrences(storedFeedbacks, id)
        /\ Occurrences(feedbacks, id) = 1


\* ---- form rules
\* The declared rules of the feedback form.
FormRules(data) ==
    /\ data.category # ""
    /\ data.title >= TitleMin /\ data.title <= TitleMax
    /\ data.content >= ContentMin /\ data.content <= ContentMax
    /\ data.rating >= 1

\* C32: a submission that violates a declared form rule changes neither
\* feedback list and sends no reward.
C32_OnlyValidSaved ==
    [][\A data \in Forms :
           (SubmitForm(data) /\ ~FormRules(data))
               => UNCHANGED <<feedbacks, storedFeedbacks, submitPc>>]_vars


\* ---- daily limit
\* Amounts in units of 0.00001 SHM: the amount of one reward (the default
\* of sendReward, config.js line 1220, which is what the application
\* passes) and CONFIG.BLOCKCHAIN.REWARDS.MAX_DAILY_REWARDS (line 33).
DefaultAmount == 1000
MAX_DAILY_REWARDS == 50000

\* UTILS.rewards.canReceiveReward(userId, dailyTotal), lines 584-586.
canReceiveReward(dailyTotal) == dailyTotal < MAX_DAILY_REWARDS

\* The amount recorded in the log of the session, every record of which
\* is of the present day.
DailyTotal ==
    IF IsArray(transactionHistory)
    THEN Len(transactionHistory.items) * DefaultAmount
    ELSE 0

\* C33: once the daily total has reached MAX_DAILY_REWARDS, a further
\* contribution of that day records no reward.
C33_DailyLimit ==
    [][~canReceiveReward(DailyTotal) => UNCHANGED transactionHistory]_vars


\* ---- moderation verdicts
\* The part of a verdict the callers act on.
Judged(verdict) ==
    <<verdict.approved, verdict.toxicityScore, verdict.issues,
      verdict.sentiment>>

\* C34: what moderateContent returned for a content string is the verdict
\* simulateModeration computes for that string.
C34_VerdictOfContent ==
    \A c \in ModCalls :
        modResult[c].content.type = "string"
            => Judged(modResult[c].verdict)
                   = Judged(simulateModeration(modResult[c].content))


\* ---- moderation cache
\* The keys a step has taken out of the cache.
Evicted ==
    {i \in DOMAIN cache :
         \A j \in DOMAIN cache' : cache'[j].key # cache[i].key}

\* C35: after every step of a moderateContent call the cache holds at
\* most CacheLimit entries, and an entry the step evicts was inserted
\* before every entry it keeps, whatever calls run beside it.
C35_CacheBounded ==
    [][/\ Len(cache') <= CacheLimit
       /\ \A i \in Evicted : \A j \in DOMAIN cache' :
              cache[i].at < cache'[j].at]_vars

\* A call that resumed beside another one has just pushed the earliest
\* entry out of a full cache.
C35_Witness ==
    /\ Len(cache) = CacheLimit
    /\ cache[1].key # generateCacheKey(Filler(1))
    /\ cache[Len(cache)].key = generateCacheKey(SpamContent)
    /\ \E c \in ModCalls : modPc[c] = "simulating"

\* ---- moderation failure
\* C36: a moderateContent call that fails with an exception returns
\* approved = true with confidence 0.5 and the error message, and stores
\* nothing in the cache.
C36_FailsSafe ==
    [][\A c \in ModCalls :
           (/\ modResult'[c] # modResult[c]
            /\ modResult'[c] # NoResult
            /\ Throws(modResult'[c].content))
               => /\ modResult'[c].verdict.approved
                  /\ modResult'[c].verdict.confidence = 50
                  /\ modResult'[c].verdict.error = FailSafe.error
                  /\ modResult'[c].verdict.reason # "throws"
                  /\ cache' = cache]_vars

\* A call on null has returned while the cache holds entries.
C36_Witness ==
    /\ \E c \in ModCalls : modResult[c].content = NullContent
    /\ \E c \in ModCalls : modPc[c] = "simulating"
    /\ cache # <<>>

\* ------------------------------------------------------------------
\* Voice input (src/js/voice.js).  The SpeechRecognition object is
\* inactive, starting (start() called, 'start' event to come), active,
\* or stopping (stop() called, 'end' event to come).  Time advances in
\* steps of VoiceTick; the 300 ms removal of the modal in hideVoiceModal
\* (lines 194-199) is over within a step.
\* ------------------------------------------------------------------

TIMEOUT == 30000
VoiceTick == 10000
MaxVoiceTime == 60000
MaxTimers == 2

\* The session running was not started by startListening.
NotTimed == 0 - 1

voiceRest == <<walletVars, debounceVars, appVars, storedReports, retryVars,
               startVars, modVars, noteVars>>

\* stopListening (lines 112-116): recognition.stop() when isListening.
\* stop() on an object that is not active does nothing.
stopListening(e) ==
    IF isListening /\ e = "active" THEN "stopping" ELSE e

\* hideVoiceModal (lines 189-201), as run on the engine: it stops the
\* recognition only when a modal is shown.
hideVoiceModal(e) ==
    IF currentModal THEN stopListening(e) ELSE e

\* startListening up to its await (lines 81-92): the microphone is asked
\* for.  One request is followed at a time.
StartListening ==
    /\ micPc = "idle"
    /\ Len(autoStops) < MaxTimers
    /\ micPc' = "asking"
    /\ UNCHANGED <<voiceClock, engine, isListening, sessionStart, autoStops,
                   currentModal>>
    /\ UNCHANGED voiceRest

\* startListening after getUserMedia resolved (lines 93-104):
\* showVoiceModal hides the modal shown (line 120) and shows a new one
\* (line 180), but the 300 ms timer of the hiding then removes the new
\* one (lines 194-199).  recognition.start() throws InvalidStateError
\* unless the object is inactive, and the catch (lines 106-109) runs
\* handleError (line 310); otherwise the auto-stop timer is armed.
MicrophoneGranted ==
    /\ micPc = "asking"
    /\ micPc' = "idle"
    /\ currentModal' = ~currentModal
    /\ IF hideVoiceModal(engine) = "inactive"
       THEN /\ engine' = "starting"
            /\ sessionStart' = voiceClock
            /\ autoStops' = Append(autoStops, voiceClock + TIMEOUT)
            /\ UNCHANGED isListening
       ELSE /\ engine' = hideVoiceModal(engine)
            /\ isListening' = FALSE
            /\ UNCHANGED <<sessionStart, autoStops>>
    /\ UNCHANGED voiceClock
    /\ UNCHANGED voiceRest

\* startListening when getUserMedia rejects (lines 106-109, 310).
MicrophoneDenied ==
    /\ micPc = "asking"
    /\ micPc' = "idle"
    /\ isListening' = FALSE
    /\ UNCHANGED <<voiceClock, engine, sessionStart, autoStops,
                   currentModal>>
    /\ UNCHANGED voiceRest

\* recognition.onstart (lines 43-47).
RecognitionStarted ==
    /\ engine = "starting"
    /\ engine' = "active"
    /\ isListening' = TRUE
    /\ UNCHANGED <<voiceClock, sessionStart, autoStops, currentModal,
                   micPc>>
    /\ UNCHANGED voiceRest

\* recognition.onend (lines 74-78): after stop(), or by the browser
\* itself (no speech, an error).
RecognitionEnded ==
    /\ engine \in {"active", "stopping"}
    /\ engine' = "inactive"
    /\ isListening' = FALSE
    /\ UNCHANGED <<voiceClock, sessionStart, autoStops, currentModal,
                   micPc>>
    /\ UNCHANGED voiceRest

\* The close button or the overlay of the modal (lines 126, 130).
HideVoiceModal ==
    /\ currentModal
    /\ engine' = hideVoiceModal(engine)
    /\ currentModal' = FALSE
    /\ UNCHANGED <<voiceClock, isListening, sessionStart, autoStops,
                   micPc>>
    /\ UNCHANGED voiceRest

\* toggleRecording (lines 262-268), a button of the modal: it stops the
\* session, or starts one without arming a timer.  start() on an object
\* that is not inactive throws and changes nothing.
ToggleRecording ==
    /\ currentModal
    /\ IF isListening
       THEN /\ engine' = stopListening(engine)
            /\ UNCHANGED sessionStart
       ELSE /\ engine = "inactive"
            /\ engine' = "starting"
            /\ sessionStart' = NotTimed
    /\ UNCHANGED <<voiceClock, isListening, autoStops, currentModal, micPc>>
    /\ UNCHANGED voiceRest

\* The callback of the auto-stop timer (lines 100-104), i-th armed.
AutoStopFired(i) ==
    /\ autoStops[i] <= voiceClock
    /\ autoStops' = [j \in 1..(Len(autoStops) - 1) |->
                        IF j < i THEN autoStops[j] ELSE autoStops[j + 1]]
    /\ engine' = stopListening(engine)
    /\ UNCHANGED <<voiceClock, isListening, sessionStart, currentModal,
                   micPc>>
    /\ UNCHANGED voiceRest

\* Time passes while no timer is due.
VoiceTime ==
    /\ voiceClock < MaxVoiceTime
    /\ \A i \in DOMAIN autoStops : autoStops[i] > voiceClock
    /\ voiceClock' = voiceClock + VoiceTick
    /\ UNCHANGED <<engine, isListening, sessionStart, autoStops,
                   currentModal, micPc>>
    /\ UNCHANGED voiceRest

InitVoice ==
    /\ FreshSession
    /\ DebounceIdle
    /\ AppIdle
    /\ ReportsIdle
    /\ RetryIdle
    /\ StartIdle
    /\ ModIdle
    /\ NoteIdle
    /\ VoiceIdle
    /\ storedHistory = JsonNull
    /\ metaMask = TRUE
    /\ nonce = 0
    /\ ret = Ret("none", "none")

NextVoice ==
    \/ StartListening
    \/ MicrophoneGranted
    \/ MicrophoneDenied
    \/ RecognitionStarted
    \/ RecognitionEnded
    \/ HideVoiceModal
    \/ ToggleRecording
    \/ \E i \in 1..MaxTimers : i \in DOMAIN autoStops /\ AutoStopFired(i)
    \/ VoiceTime

SpecVoice == InitVoice /\ [][NextVoice]_vars

\* C37: the auto-stop timer stops a session that startListening started
\* only when TIMEOUT has passed since that session was started; a timer
\* armed for an earlier session never stops a later one early.
C37_AutoStopOwnSession ==
    [][\A i \in DOMAIN autoStops :
          (AutoStopFired(i) /\ isListening /\ engine = "active"
             /\ sessionStart # NotTimed)
          => voiceClock >= sessionStart + TIMEOUT]_vars

\* ------------------------------------------------------------------
\* Notifications (src/js/app.js, NotificationManager, lines 1119-1222).
\* A notification is the number of the show() call that created it.  A
\* timer is the notification it was armed for and the time it is due;
\* timers of one delay fire in the order they were armed.
\* ------------------------------------------------------------------

MAX_NOTIFICATIONS == 5
ANIMATION == 300
ShortDuration == 400
NoteTick == 100
MaxNoteTime == 500
MaxShow == 7
MaxPending == 1
BurstEnd == 100

\* show() takes any duration; its callers pass 5000 and more.  A short
\* one brings the automatic removal within the time followed, and 0
\* arms no timer (line 1145).
Durations == {0, ShortDuration}

noteRest == <<walletVars, debounceVars, appVars, storedReports, retryVars,
              startVars, modVars, voiceVars>>

\* remove(notification) (lines 1199-1212) on the timers rs: a
\* notification that has a parentNode gets a timer of 300 ms, whether or
\* not one is already running for it.
remove(rs, id) ==
    IF id \in attached
    THEN Append(rs, [id |-> id, due |-> noteClock + ANIMATION])
    ELSE rs

\* show(message, type, duration) (lines 1139-1157).  The new element is
\* in the container when the oldest one is looked at.  The calls
\* followed are those of one burst, the first BurstEnd milliseconds.
Show(duration) ==
    /\ noteCount < MaxShow
    /\ noteClock <= BurstEnd
    /\ noteCount' = noteCount + 1
    /\ attached' = attached \cup {noteCount'}
    /\ notifications' = Append(notifications, noteCount')
    /\ autoRemovals' =
           IF duration > 0
           THEN Append(autoRemovals,
                       [id |-> noteCount', due |-> noteClock + duration])
           ELSE autoRemovals
    /\ removals' =
           IF Len(notifications') > MAX_NOTIFICATIONS
           THEN Append(removals, [id |-> notifications'[1],
                                  due |-> noteClock + ANIMATION])
           ELSE removals
    /\ UNCHANGED noteClock
    /\ UNCHANGED noteRest

\* The callback of the timer of remove() (lines 1202-1210), the oldest
\* one armed: the element leaves the container if it is still there, and
\* the list if it is still in it.
RemovalFired ==
    /\ removals # <<>>
    /\ Head(removals).due <= noteClock
    /\ removals' = Tail(removals)
    /\ attached' = attached \ {Head(removals).id}
    /\ notifications' =
           SelectSeq(notifications, LAMBDA n : n # Head(removals).id)
    /\ UNCHANGED <<autoRemovals, noteClock, noteCount>>
    /\ UNCHANGED noteRest

\* The callback of the duration timer of show() (lines 1146-1148).
AutoRemovalFired ==
    /\ autoRemovals # <<>>
    /\ Head(autoRemovals).due <= noteClock
    /\ autoRemovals' = Tail(autoRemovals)
    /\ removals' = remove(removals, Head(autoRemovals).id)
    /\ UNCHANGED <<notifications, attached, noteClock, noteCount>>
    /\ UNCHANGED noteRest

\* A click on a notification or on its close button (lines 1184,
\* 1189-1193), while no removal is pending.
Dismiss(id) ==
    /\ id \in attached
    /\ Len(removals) < MaxPending
    /\ removals' = remove(removals, id)
    /\ UNCHANGED <<notifications, attached, autoRemovals, noteClock,
                   noteCount>>
    /\ UNCHANGED noteRest

\* Time passes while no timer is due.
NoteTime ==
    /\ noteClock < MaxNoteTime
    /\ removals # <<>> => Head(removals).due > noteClock
    /\ autoRemovals # <<>> => Head(autoRemovals).due > noteClock
    /\ noteClock' = noteClock + NoteTick
    /\ UNCHANGED <<notifications, attached, removals, autoRemovals,
                   noteCount>>
    /\ UNCHANGED noteRest

InitNote ==
    /\ FreshSession
    /\ DebounceIdle
    /\ AppIdle
    /\ ReportsIdle
    /\ RetryIdle
    /\ StartIdle
    /\ ModIdle
    /\ VoiceIdle
    /\ NoteIdle
    /\ storedHistory = JsonNull
    /\ metaMask = TRUE
    /\ nonce = 0
    /\ ret = Ret("none", "none")

NextNote ==
    \/ \E duration \in Durations : Show(duration)
    \/ RemovalFired
    \/ AutoRemovalFired
    \/ \E id \in 1..MaxShow : Dismiss(id)
    \/ NoteTime

SpecNote == InitNote /\ [][NextNote]_vars

\* C38: whatever the burst of show() calls, once the 300 ms removals
\* that were pending have completed the list holds at most 5
\* notifications.
C38_AtMostFiveShown ==
    removals = <<>> => Len(notifications) <= MAX_NOTIFICATIONS

====
